---- MODULE Spec2Model ----
(***************************************************************************)
(* State-machine model of the lazy-resolution core of busytex-lazy:        *)
(*   - CTANFetcher (src/README.md, lines 210-360)                          *)
(*   - BundleManager (src/unnamed/part_000)                                *)
(*   - PackageManager (src/packages/engine-selector.ts)                    *)
(* Every await of the source is a suspension point; the code between two   *)
(* awaits is one atomic action (single-threaded cooperative scheduling).   *)
(***************************************************************************)
EXTENDS Integers, Sequences, FiniteSets, TLC

(***************************************************************************)
(* Bounds                                                                  *)
(***************************************************************************)
\* number of fetchPackage calls that can be pending at the same time
MaxCalls == 2
\* number of successive values of the cache-version constant (deployments)
MaxVersion == 2

\* number of BundleManager.loadBundle calls that can be pending at once
MaxBundleCalls == 2
\* cap on BundleManager.bytesDownloaded (a counter that only grows)
MaxBytesDownloaded == 6

Calls == 1..MaxCalls

BundleCalls == 1..MaxBundleCalls

\* number of external PackageManager.loadBundle callers pending at once
MaxLoaderCalls == 2
\* number of failed network answers the CDN gives to PackageManager
MaxLoadFailures == 1

LoaderCalls == 1..MaxLoaderCalls

\* number of store operations that throw
MaxStoreFaults == 1

\* length of the package list handed to resolveBundles
MaxPackages == 2

\* number of loadManifest calls pending at once
MaxManifestCalls == 2

ManifestCalls == 1..MaxManifestCalls

\* mounts of one bundle left running by compile calls that have rejected
MaxOrphans == 1

\* compileCount of a stored EngineStats entry
MaxCompileCount == 2

\* number of files in the metadata handed to mountBundle
MaxFiles == 2

\* number of recordResult calls that can be pending at the same time
MaxRecordCalls == 2
\* number of compile results handed to recordResult
MaxResults == 2

\* number of /api/fetch requests the proxy can be serving at the same time
MaxRequests == 1
\* number of restarts of the proxy
MaxRestarts == 1

(***************************************************************************)
(* CTANFetcher: environment                                                *)
(***************************************************************************)
\* package names requested by callers: "pa" is served by the proxy (as is its
\* dependency "pb"), "px" is a name no source knows
PackageNames == {"pa", "px"}

NoName == "none"

\* keys of data.files in a successful /api/fetch answer, in key order
ProxyFiles(n) ==
    CASE n = "pa" -> <<"/texlive/texmf-dist/tex/latex/pa/pa.sty",
                       "/texlive/texmf-dist/tex/latex/pa/pa.def">>
      [] n = "pb" -> <<"/texlive/texmf-dist/tex/latex/pb/pb.sty">>
      [] OTHER    -> <<>>

\* data.dependencies of a successful /api/fetch answer (cyclic on purpose)
ProxyDeps(n) ==
    CASE n = "pa" -> {"pb"}
      [] n = "pb" -> {"pa"}
      [] OTHER    -> {}

Range(s) == {s[i] : i \in 1..Len(s)}

\* the sequences over S of length at most n
SeqsUpTo(S, n) == UNION {[1..k -> S] : k \in 0..n}

\* what one GET <proxy>/api/fetch/<name> can come back with:
\*   "reject"  fetch() rejects (network down, timeout)
\*   "404"     HTTP 404 with body {error}
\*   "500"     HTTP 500 with body {error} (download failed, extraction failed)
\*   "okError" HTTP 200 whose body has an error field
\*   "ok"      HTTP 200 {name, files, dependencies, totalFiles}
\* The proxy answers 200 with files only when it extracted at least one file.
ResponseKinds(n) ==
    {"reject", "404", "500", "okError"} \cup
        (IF ProxyFiles(n) # <<>> THEN {"ok"} ELSE {})

(***************************************************************************)
(* Persistent store (storage.js): record store and blob store              *)
(***************************************************************************)
NoMeta ==
    [present |-> FALSE, notFound |-> FALSE, files |-> <<>>,
     dependencies |-> {}, cacheVersion |-> 0]

\* the record written on a negative answer: {notFound: true, cacheVersion}
NotFoundRecord(ver) ==
    [present |-> TRUE, notFound |-> TRUE, files |-> <<>>,
     dependencies |-> {}, cacheVersion |-> ver]

\* the record written after the files were cached:
\* {name, files: [...files.keys()], dependencies, cacheVersion}
PackageRecord(files, deps, ver) ==
    [present |-> TRUE, notFound |-> FALSE, files |-> files,
     dependencies |-> deps, cacheVersion |-> ver]

\* getPackageMeta(name): the stored record, or nothing
getPackageMeta(store, n) == store[n]

\* savePackageMeta(name, meta): replaces the record of that name
savePackageMeta(store, n, meta) == [store EXCEPT ![n] = meta]

\* readFromOPFS(path): truthy exactly when a blob is stored at the path
readFromOPFS(blobs, p) == p \in blobs

\* writeToOPFS(path, content): stores the blob at the path
writeToOPFS(blobs, p) == blobs \cup {p}

(***************************************************************************)
(* State                                                                   *)
(***************************************************************************)
VARIABLES
    cacheVersion,   \* CTAN_CACHE_VERSION of the running build
    pkgMeta,        \* record store, pkg:<name>
    opfs,           \* blob store: the canonical paths that hold a blob
    mountedFiles,   \* CTANFetcher.mountedFiles
    fetchCount,     \* CTANFetcher.fetchCount
    fcall,          \* the fetchPackage invocations, one record per call
    bundleCache,    \* BundleManager.bundleCache: name -> decompressed bytes
    bundleStore,    \* blob store entries bundle:<name> (getBundleFromOPFS)
    pendingSaves,   \* saveBundleToOPFS calls running in the background
    bytesDownloaded,\* BundleManager.bytesDownloaded
    cacheHitCount,  \* BundleManager.cacheHitCount
    bcall,          \* the BundleManager.loadBundle invocations
    loadedBundles,  \* PackageManager.loadedBundles
    loadingBundles, \* keys of PackageManager.loadingBundles
    pmRuns,         \* executions of PackageManager._loadBundle, per name
    pmCache,        \* URLs held by PackageManager.cache (Cache API)
    pmFS,           \* paths written to config.FS by PackageManager
    pmCalls,        \* external callers of PackageManager.loadBundle
    pmLog,          \* counters: _loadBundle starts, failures, mounts, and
                    \* failed answers of the CDN
    storeFaults,    \* number of store operations that threw so far
    walk,           \* the fetchWithDependencies traversal in progress
    mf,             \* BundleManager: fileManifest, bundleRegistry, packageMap,
                    \* bundleDeps, packageDeps
    rcall,          \* the last BundleManager.resolveBundles call
    mcall,          \* the BundleManager.loadManifest invocations
    efs,            \* the engine filesystem (Emscripten FS): dirs and files
    mount,          \* the last mountBundle call and the FS.writeFile calls
                    \* it made
    lbs,            \* the BundleManager.loadBundles invocation
    comp,           \* the SplitBundlePipeline.compile invocation
    pl,             \* the SplitBundlePipeline and its BundleLoader
    selStore,       \* the EngineSelector's storage: statistics and flags
    scall,          \* the EngineSelector.select invocation
    lcall,          \* the EngineSelector.recordResult invocations
    hist,           \* the results handed to recordResult, per fingerprint
    clr,            \* the EngineSelector.clearHistory invocation
    proxy,          \* the CTAN proxy: packageAliases, pkgFetchCache and
                    \* what it persisted
    preq            \* the /api/fetch request the proxy is serving

fetcherVars == <<cacheVersion, pkgMeta, opfs, mountedFiles, fetchCount, fcall>>

bundleVars == <<bundleCache, bundleStore, pendingSaves, bytesDownloaded,
                cacheHitCount, bcall>>

pmVars == <<loadedBundles, loadingBundles, pmRuns, pmCache, pmFS, pmCalls,
            pmLog>>

vars == <<cacheVersion, pkgMeta, opfs, mountedFiles, fetchCount, fcall,
          bundleCache, bundleStore, pendingSaves, bytesDownloaded,
          cacheHitCount, bcall,
          loadedBundles, loadingBundles, pmRuns, pmCache, pmFS, pmCalls,
          pmLog, storeFaults, walk, mf, rcall, mcall, efs, mount, lbs,
          comp, pl, selStore, scall, lcall, hist, clr, proxy, preq>>

manifestVars == <<mf, rcall, mcall>>

mountVars == <<efs, mount>>

compileVars == <<comp, pl>>

selectorVars == <<selStore, scall>>

learnVars == <<lcall, hist, clr>>

proxyVars == <<proxy, preq>>

orchVars == <<lbs, compileVars, selectorVars, learnVars, proxyVars>>

\* what the actions of one component leave alone
notFetcherVars == <<bundleVars, pmVars, storeFaults, walk, manifestVars,
                    mountVars, orchVars>>

notBundleVars == <<fetcherVars, pmVars, storeFaults, walk, manifestVars,
                   mountVars, orchVars>>

notLoaderVars == <<fetcherVars, bundleVars, storeFaults, walk, manifestVars,
                   mountVars, orchVars>>

\* fetchPackage has not settled yet
PendingResult == [kind |-> "pending", files |-> {}, dependencies |-> {}]

\* fetchPackage resolves with null
NullResult == [kind |-> "null", files |-> {}, dependencies |-> {}]

FilesResult_NoDeps(files, deps) ==
    [kind |-> "files", files |-> files, dependencies |-> {}]

\* fetchPackage resolves with {files, dependencies}
FilesResult(files, deps) ==
    [kind |-> "files", files |-> files, dependencies |-> deps]

\* a call that has not been made yet
IdleCall ==
    [pc |-> "idle", name |-> NoName, atStart |-> "none", seen |-> "none",
     rec |-> NoMeta, todo |-> <<>>, files |-> {}, deps |-> {}, resp |-> "none",
     issued |-> FALSE, wrote |-> "none", result |-> PendingResult]

(***************************************************************************)
(* CTANFetcher.loadPackageFromCache, the checks on the record               *)
(***************************************************************************)
CacheLookup_NoVersion(meta, ver) ==
    IF ~meta.present THEN "absent"
    ELSE IF meta.notFound THEN "notFound"
    ELSE "valid"

\* "absent" and "stale" both make loadPackageFromCache return null
CacheLookup(meta, ver) ==
    IF ~meta.present THEN "absent"
    ELSE IF meta.cacheVersion # ver THEN "stale"
    ELSE IF meta.notFound THEN "notFound"
    ELSE "valid"

(***************************************************************************)
(* CTANFetcher.fetchPackage                                                *)
(***************************************************************************)
\* a caller invokes fetchPackage(n); the call suspends on getPackageMeta
\* (the slot of a settled call is reused for the new one)
FetchPackage(c, n) ==
    /\ fcall[c].pc \in {"idle", "done"}
    /\ fcall' = [fcall EXCEPT ![c] =
            [IdleCall EXCEPT !.pc = "getMeta", !.name = n,
                             !.atStart = CacheLookup(pkgMeta[n], cacheVersion)]]
    /\ UNCHANGED <<cacheVersion, pkgMeta, opfs, mountedFiles, fetchCount>>
    /\ UNCHANGED notFetcherVars

\* getPackageMeta resolves: version check, notFound check, then either the
\* read loop over meta.files or (cache miss) the GET to the proxy
GetMetaReturns(c) ==
    /\ fcall[c].pc = "getMeta"
    /\ LET meta == getPackageMeta(pkgMeta, fcall[c].name)
           kind == CacheLookup(meta, cacheVersion)
       IN  fcall' = [fcall EXCEPT ![c] =
             CASE kind \in {"absent", "stale"} ->
                    [@ EXCEPT !.pc = "fetch", !.seen = kind, !.rec = meta,
                              !.issued = TRUE]
               [] kind = "notFound" ->
                    [@ EXCEPT !.pc = "done", !.seen = kind, !.rec = meta,
                              !.result = NullResult]
               [] kind = "valid" /\ meta.files = <<>> ->
                    [@ EXCEPT !.pc = "done", !.seen = kind, !.rec = meta,
                              !.deps = meta.dependencies,
                              !.result = FilesResult({}, meta.dependencies)]
               [] OTHER ->
                    [@ EXCEPT !.pc = "readBlob", !.seen = kind, !.rec = meta,
                              !.todo = meta.files,
                              !.deps = meta.dependencies]]
    /\ UNCHANGED <<cacheVersion, pkgMeta, opfs, mountedFiles, fetchCount>>
    /\ UNCHANGED notFetcherVars

\* readFromOPFS resolves for the next recorded path
ReadBlobReturns(c) ==
    /\ fcall[c].pc = "readBlob"
    /\ LET p     == Head(fcall[c].todo)
           rest  == Tail(fcall[c].todo)
           found == readFromOPFS(opfs, p)
           files == IF found THEN fcall[c].files \cup {p} ELSE fcall[c].files
       IN  /\ mountedFiles' = IF found THEN mountedFiles \cup {p}
                              ELSE mountedFiles
           /\ fcall' = [fcall EXCEPT ![c] =
                IF rest = <<>>
                THEN [@ EXCEPT !.pc = "done", !.todo = rest, !.files = files,
                               !.result = FilesResult(files, fcall[c].deps)]
                ELSE [@ EXCEPT !.todo = rest, !.files = files]]
    /\ UNCHANGED <<cacheVersion, pkgMeta, opfs, fetchCount>>
    /\ UNCHANGED notFetcherVars

SavesNotFound_AlsoReject(kind) == kind \in {"404", "500", "okError", "reject"}

\* the answers on which fetchPackage saves a notFound record:
\* !response.ok, or a decoded body with an error field
SavesNotFound(kind) == kind \in {"404", "500", "okError"}

\* the GET settles: a negative answer leaves for savePackageMeta(notFound), a
\* rejected fetch lands in the catch block (return null), a positive answer
\* enters the loop over data.files (files.set, mountedFiles.add, writeToOPFS)
NetResponse(c, kind) ==
    /\ fcall[c].pc = "fetch"
    /\ kind \in ResponseKinds(fcall[c].name)
    /\ LET data == ProxyFiles(fcall[c].name)
       IN  IF SavesNotFound(kind)
           THEN /\ fcall' = [fcall EXCEPT ![c] =
                      [@ EXCEPT !.pc = "saveNotFound", !.resp = kind]]
                /\ UNCHANGED mountedFiles
           ELSE IF kind = "reject"
           THEN /\ fcall' = [fcall EXCEPT ![c] =
                      [@ EXCEPT !.pc = "done", !.resp = kind,
                                !.result = NullResult]]
                /\ UNCHANGED mountedFiles
           ELSE IF data = <<>>
           THEN /\ fcall' = [fcall EXCEPT ![c] =
                      [@ EXCEPT !.pc = "saveMeta", !.resp = kind,
                                !.deps = ProxyDeps(fcall[c].name)]]
                /\ UNCHANGED mountedFiles
           ELSE /\ fcall' = [fcall EXCEPT ![c] =
                      [@ EXCEPT !.pc = "writeBlob", !.resp = kind,
                                !.todo = data, !.files = {Head(data)},
                                !.deps = ProxyDeps(fcall[c].name)]]
                /\ mountedFiles' = mountedFiles \cup {Head(data)}
    /\ UNCHANGED <<cacheVersion, pkgMeta, opfs, fetchCount>>
    /\ UNCHANGED notFetcherVars

\* savePackageMeta(notFound) resolves, fetchPackage returns null
SaveNotFoundDone(c) ==
    /\ fcall[c].pc = "saveNotFound"
    /\ pkgMeta' = savePackageMeta(pkgMeta, fcall[c].name,
                                  NotFoundRecord(cacheVersion))
    /\ fcall' = [fcall EXCEPT ![c] =
            [@ EXCEPT !.pc = "done", !.wrote = "notFound",
                      !.result = NullResult]]
    /\ UNCHANGED <<cacheVersion, opfs, mountedFiles, fetchCount>>
    /\ UNCHANGED notFetcherVars

WriteBlobDone_Lost(c) ==
    /\ fcall[c].pc = "writeBlob"
    /\ LET rest == Tail(fcall[c].todo)
       IN  IF rest = <<>>
           THEN /\ fcall' = [fcall EXCEPT ![c] =
                      [@ EXCEPT !.pc = "saveMeta", !.todo = rest]]
                /\ UNCHANGED mountedFiles
           ELSE /\ fcall' = [fcall EXCEPT ![c] =
                      [@ EXCEPT !.todo = rest,
                                !.files = @ \cup {Head(rest)}]]
                /\ mountedFiles' = mountedFiles \cup {Head(rest)}
    /\ UNCHANGED <<cacheVersion, pkgMeta, opfs, fetchCount>>
    /\ UNCHANGED notFetcherVars

\* writeToOPFS resolves for the path in flight; the loop goes on with the
\* next entry of data.files or leaves for savePackageMeta
WriteBlobDone(c) ==
    /\ fcall[c].pc = "writeBlob"
    /\ LET p    == Head(fcall[c].todo)
           rest == Tail(fcall[c].todo)
       IN  /\ opfs' = writeToOPFS(opfs, p)
           /\ IF rest = <<>>
              THEN /\ fcall' = [fcall EXCEPT ![c] =
                         [@ EXCEPT !.pc = "saveMeta", !.todo = rest]]
                   /\ UNCHANGED mountedFiles
              ELSE /\ fcall' = [fcall EXCEPT ![c] =
                         [@ EXCEPT !.todo = rest,
                                   !.files = @ \cup {Head(rest)}]]
                   /\ mountedFiles' = mountedFiles \cup {Head(rest)}
    /\ UNCHANGED <<cacheVersion, pkgMeta, fetchCount>>
    /\ UNCHANGED notFetcherVars

\* savePackageMeta(files) resolves, fetchCount++, fetchPackage returns
SaveMetaDone(c) ==
    /\ fcall[c].pc = "saveMeta"
    /\ LET listed == SelectSeq(ProxyFiles(fcall[c].name),
                               LAMBDA p : p \in fcall[c].files)
       IN  pkgMeta' = savePackageMeta(pkgMeta, fcall[c].name,
                        PackageRecord(listed, fcall[c].deps, cacheVersion))
    /\ fetchCount' = fetchCount + 1
    /\ fcall' = [fcall EXCEPT ![c] =
            [@ EXCEPT !.pc = "done", !.wrote = "files",
                      !.result = FilesResult(fcall[c].files, fcall[c].deps)]]
    /\ UNCHANGED <<cacheVersion, opfs, mountedFiles>>
    /\ UNCHANGED notFetcherVars

\* a build with another CTAN_CACHE_VERSION is loaded: the page restarts with
\* a fresh CTANFetcher; both stores persist
Redeploy ==
    /\ cacheVersion < MaxVersion
    /\ cacheVersion' = cacheVersion + 1
    /\ fcall' = [c \in Calls |-> IdleCall]
    /\ mountedFiles' = {}
    /\ fetchCount' = 0
    /\ UNCHANGED <<pkgMeta, opfs>>
    /\ UNCHANGED notFetcherVars

\* new CTANFetcher() over empty stores
FetcherInit ==
    /\ cacheVersion = 1
    /\ pkgMeta = [n \in PackageNames |-> NoMeta]
    /\ opfs = {}
    /\ mountedFiles = {}
    /\ fetchCount = 0
    /\ fcall = [c \in Calls |-> IdleCall]

FetcherNext ==
    \/ \E c \in Calls, n \in PackageNames : FetchPackage(c, n)
    \/ \E c \in Calls : GetMetaReturns(c)
    \/ \E c \in Calls : ReadBlobReturns(c)
    \/ \E c \in Calls, kind \in {"reject", "404", "500", "okError", "ok"} :
            NetResponse(c, kind)
    \/ \E c \in Calls : SaveNotFoundDone(c)
    \/ \E c \in Calls : WriteBlobDone(c)
    \/ \E c \in Calls : SaveMetaDone(c)
    \/ Redeploy

(***************************************************************************)
(* CTANFetcher over stores and a proxy that can fail: every await of       *)
(* loadPackageFromCache and fetchPackage can also throw                    *)
(***************************************************************************)
RejectedResult == [kind |-> "rejected", files |-> {}, dependencies |-> {}]

CacheErrorCaught_Propagates(call) ==
    [call EXCEPT !.pc = "done", !.seen = "error", !.result = RejectedResult]

\* catch (e) { return null } of loadPackageFromCache: fetchPackage sees a
\* miss and goes on to the GET; the files map built so far is dropped
CacheErrorCaught(call) ==
    [call EXCEPT !.pc = "fetch", !.seen = "error", !.issued = TRUE,
                 !.todo = <<>>, !.files = {}, !.deps = {}]

\* catch (e) { ...; return null } of fetchPackage
NetErrorCaught(call) == [call EXCEPT !.pc = "done", !.result = NullResult]

\* getPackageMeta throws
GetMetaThrows(c) ==
    /\ storeFaults < MaxStoreFaults
    /\ storeFaults' = storeFaults + 1
    /\ fcall[c].pc = "getMeta"
    /\ fcall' = [fcall EXCEPT ![c] = CacheErrorCaught(@)]
    /\ UNCHANGED <<cacheVersion, pkgMeta, opfs, mountedFiles, fetchCount>>
    /\ UNCHANGED <<bundleVars, pmVars, walk, manifestVars, mountVars, orchVars>>

\* readFromOPFS throws for the next recorded path; the paths read before it
\* stay in mountedFiles
ReadBlobThrows(c) ==
    /\ storeFaults < MaxStoreFaults
    /\ storeFaults' = storeFaults + 1
    /\ fcall[c].pc = "readBlob"
    /\ fcall' = [fcall EXCEPT ![c] = CacheErrorCaught(@)]
    /\ UNCHANGED <<cacheVersion, pkgMeta, opfs, mountedFiles, fetchCount>>
    /\ UNCHANGED <<bundleVars, pmVars, walk, manifestVars, mountVars, orchVars>>

\* response.json() throws on a 200 answer whose body is not JSON
JsonThrows(c) ==
    /\ fcall[c].pc = "fetch"
    /\ fcall' = [fcall EXCEPT ![c] =
            NetErrorCaught([@ EXCEPT !.resp = "malformed"])]
    /\ UNCHANGED <<cacheVersion, pkgMeta, opfs, mountedFiles, fetchCount>>
    /\ UNCHANGED notFetcherVars

\* writeToOPFS throws for the path in flight: no blob, no record
WriteBlobThrows(c) ==
    /\ storeFaults < MaxStoreFaults
    /\ storeFaults' = storeFaults + 1
    /\ fcall[c].pc = "writeBlob"
    /\ fcall' = [fcall EXCEPT ![c] =
            NetErrorCaught([@ EXCEPT !.wrote = "failed"])]
    /\ UNCHANGED <<cacheVersion, pkgMeta, opfs, mountedFiles, fetchCount>>
    /\ UNCHANGED <<bundleVars, pmVars, walk, manifestVars, mountVars, orchVars>>

\* savePackageMeta throws (either the notFound marker or the real record)
SaveMetaThrows(c) ==
    /\ storeFaults < MaxStoreFaults
    /\ storeFaults' = storeFaults + 1
    /\ fcall[c].pc \in {"saveNotFound", "saveMeta"}
    /\ fcall' = [fcall EXCEPT ![c] =
            NetErrorCaught([@ EXCEPT !.wrote = "failed"])]
    /\ UNCHANGED <<cacheVersion, pkgMeta, opfs, mountedFiles, fetchCount>>
    /\ UNCHANGED <<bundleVars, pmVars, walk, manifestVars, mountVars, orchVars>>

\* one package, no redeploy
FaultyNext ==
    \/ \E c \in Calls : FetchPackage(c, "pa")
    \/ \E c \in Calls : GetMetaReturns(c)
    \/ \E c \in Calls : ReadBlobReturns(c)
    \/ \E c \in Calls, kind \in {"reject", "404", "500", "okError", "ok"} :
            NetResponse(c, kind)
    \/ \E c \in Calls : SaveNotFoundDone(c)
    \/ \E c \in Calls : WriteBlobDone(c)
    \/ \E c \in Calls : SaveMetaDone(c)
    \/ \E c \in Calls : GetMetaThrows(c)
    \/ \E c \in Calls : ReadBlobThrows(c)
    \/ \E c \in Calls : JsonThrows(c)
    \/ \E c \in Calls : WriteBlobThrows(c)
    \/ \E c \in Calls : SaveMetaThrows(c)

(***************************************************************************)
(* CTANFetcher over a blob store that other contexts share: a blob can be  *)
(* deleted while its package record stays                                  *)
(***************************************************************************)
\* delete(path) of the blob store, by another context or by the browser
deleteFromOPFS(blobs, p) == blobs \ {p}

BlobEvicted(p) ==
    /\ p \in opfs
    /\ opfs' = deleteFromOPFS(opfs, p)
    /\ UNCHANGED <<cacheVersion, pkgMeta, mountedFiles, fetchCount, fcall>>
    /\ UNCHANGED notFetcherVars

\* one package, no redeploy
EvictedNext ==
    \/ \E c \in Calls : FetchPackage(c, "pa")
    \/ \E c \in Calls : GetMetaReturns(c)
    \/ \E c \in Calls : ReadBlobReturns(c)
    \/ \E c \in Calls, kind \in {"reject", "404", "500", "okError", "ok"} :
            NetResponse(c, kind)
    \/ \E c \in Calls : SaveNotFoundDone(c)
    \/ \E c \in Calls : WriteBlobDone(c)
    \/ \E c \in Calls : SaveMetaDone(c)
    \/ \E p \in Range(ProxyFiles("pa")) : BlobEvicted(p)

(***************************************************************************)
(* CTANFetcher.fetchWithDependencies                                       *)
(***************************************************************************)
WalkNames == {"pa", "pb", "pc"}

WalkOrder == <<"pa", "pb", "pc">>

\* the files fetchPackage(n) returns for a resolvable package; two packages
\* may ship the same path
WalkFiles(n) ==
    CASE n = "pa" -> {"/texlive/pa.sty", "/texlive/common.def"}
      [] n = "pb" -> {"/texlive/pb.sty", "/texlive/common.def"}
      [] OTHER    -> {"/texlive/pc.sty"}

\* result.dependencies as the array the loop iterates
DepList(deps) == SelectSeq(WalkOrder, LAMBDA n : n \in deps)

Visited_Never(n, fetched) == FALSE

\* if (fetched.has(packageName)) return new Map()
Visited(n, fetched) == n \in fetched

Frame(n) == [name |-> n, todo |-> <<>>, files |-> {}]

IdleWalk ==
    [pc |-> "idle", root |-> NoName,
     graph |-> [n \in WalkNames |-> {}], resolvable |-> {},
     fetched |-> {}, stack |-> <<>>,
     calls |-> [n \in WalkNames |-> 0], result |-> {}]

\* fetchWithDependencies(root) is called (one traversal is followed from its
\* call to its return) with a fresh fetched set, against a
\* proxy whose resolvable packages have the dependency lists graph; for the
\* other packages fetchPackage returns null
WalkStart(root, graph, resolvable) ==
    /\ walk.pc = "idle"
    /\ \A n \in WalkNames \ resolvable : graph[n] = {}
    /\ walk' = [IdleWalk EXCEPT !.pc = "fetch", !.root = root,
                    !.graph = graph, !.resolvable = resolvable,
                    !.fetched = {root}, !.stack = <<Frame(root)>>]
    /\ UNCHANGED <<fetcherVars, bundleVars, pmVars, storeFaults, manifestVars,
                   mountVars, orchVars>>

\* the fetchPackage call of the innermost frame returns: null ends the frame
\* with an empty map, a result starts the loop over its dependencies
WalkFetchReturns ==
    /\ walk.pc = "fetch"
    /\ LET k == Len(walk.stack)
           n == walk.stack[k].name
       IN  walk' = [walk EXCEPT !.pc = "loop", !.calls[n] = @ + 1,
                    !.stack[k] =
                        IF n \in walk.resolvable
                        THEN [name |-> n, todo |-> DepList(walk.graph[n]),
                              files |-> WalkFiles(n)]
                        ELSE Frame(n)]
    /\ UNCHANGED <<fetcherVars, bundleVars, pmVars, storeFaults, manifestVars,
                   mountVars, orchVars>>

\* the loop of the innermost frame calls fetchWithDependencies(dep, fetched):
\* a visited dependency returns an empty map, an unvisited one is added to
\* fetched and its frame calls fetchPackage
WalkEnterDep ==
    /\ walk.pc = "loop"
    /\ LET k == Len(walk.stack)
           d == Head(walk.stack[k].todo)
       IN  /\ walk.stack[k].todo # <<>>
           /\ walk' =
                IF Visited(d, walk.fetched)
                THEN [walk EXCEPT !.stack[k].todo = Tail(@)]
                ELSE [walk EXCEPT !.pc = "fetch",
                         !.fetched = @ \cup {d},
                         !.stack = Append([walk.stack EXCEPT ![k].todo =
                                              Tail(@)], Frame(d))]
    /\ UNCHANGED <<fetcherVars, bundleVars, pmVars, storeFaults, manifestVars,
                   mountVars, orchVars>>

\* the loop of the innermost frame is over: it returns allFiles, which its
\* caller merges into its own allFiles; the outermost frame returns to the
\* caller of fetchWithDependencies
WalkFrameReturns ==
    /\ walk.pc = "loop"
    /\ LET k   == Len(walk.stack)
           top == walk.stack[k]
       IN  /\ top.todo = <<>>
           /\ walk' =
                IF k = 1
                THEN [walk EXCEPT !.pc = "done", !.stack = <<>>,
                                  !.result = top.files]
                ELSE [walk EXCEPT !.stack =
                        [SubSeq(walk.stack, 1, k - 1) EXCEPT ![k - 1].files =
                             @ \cup top.files]]
    /\ UNCHANGED <<fetcherVars, bundleVars, pmVars, storeFaults, manifestVars,
                   mountVars, orchVars>>

WalkNext ==
    \/ \E root \in WalkNames, graph \in [WalkNames -> SUBSET WalkNames],
          resolvable \in SUBSET WalkNames :
            WalkStart(root, graph, resolvable)
    \/ WalkFetchReturns
    \/ WalkEnterDep
    \/ WalkFrameReturns

(***************************************************************************)
(* BundleManager.loadBundle (src/unnamed/part_000)                         *)
(***************************************************************************)
BundleNames == {"amsmath", "tikz"}

\* decompressed payload of <name>.data.gz as built offline
BundleData(n) ==
    CASE n = "amsmath" -> <<1, 2, 3>>
      [] OTHER         -> <<4, 5>>

\* compressed.byteLength of the served <name>.data.gz
GzLength(n) == Len(BundleData(n)) - 1

\* what GET <bundleBase>/<name>.data.gz can come back with:
\*   "reject"    fetch() rejects
\*   "httpError" response.ok is false
\*   "ok"        a gzip stream of the bundle's payload
\*   "corrupt"   a body DecompressionStream cannot decode
BundleResponseKinds == {"reject", "httpError", "ok", "corrupt"}

NoBytes == <<>>

\* decompress(compressed): the payload, or a throw on a corrupt stream
decompress(n, kind) ==
    IF kind = "ok" THEN [ok |-> TRUE, bytes |-> BundleData(n)]
    ELSE [ok |-> FALSE, bytes |-> NoBytes]

BundlePending == [kind |-> "pending", bytes |-> NoBytes]

\* loadBundle resolves with the decompressed bytes
BundleResolved(bytes) == [kind |-> "resolved", bytes |-> bytes]

\* loadBundle rejects (throw new Error)
BundleRejected == [kind |-> "rejected", bytes |-> NoBytes]

IdleBundleCall ==
    [pc |-> "idle", name |-> NoName, issued |-> FALSE, body |-> "none",
     from |-> "none", result |-> BundlePending]

\* a caller invokes loadBundle(n): the memory cache is checked synchronously,
\* then the call suspends on getBundleFromOPFS
EnterLoadBundle(n) ==
    IF bundleCache[n] # NoBytes
    THEN [IdleBundleCall EXCEPT !.pc = "done", !.name = n, !.from = "memory",
                !.result = BundleResolved(bundleCache[n])]
    ELSE [IdleBundleCall EXCEPT !.pc = "opfsRead", !.name = n]

LoadBundle(c, n) ==
    /\ bcall[c].pc \in {"idle", "done"}
    /\ bytesDownloaded < MaxBytesDownloaded
    /\ bcall' = [bcall EXCEPT ![c] = EnterLoadBundle(n)]
    /\ UNCHANGED <<bundleCache, bundleStore, pendingSaves, bytesDownloaded,
                   cacheHitCount>>
    /\ UNCHANGED notBundleVars

OpfsReadReturns_NoPromote(c) ==
    /\ bcall[c].pc = "opfsRead"
    /\ LET n == bcall[c].name
       IN  IF bundleStore[n] # NoBytes
           THEN /\ cacheHitCount' = cacheHitCount + 1
                /\ bcall' = [bcall EXCEPT ![c] =
                      [@ EXCEPT !.pc = "done", !.from = "opfs",
                                !.result = BundleResolved(bundleStore[n])]]
           ELSE /\ bcall' = [bcall EXCEPT ![c] =
                      [@ EXCEPT !.pc = "fetch", !.issued = TRUE]]
                /\ UNCHANGED cacheHitCount
    /\ UNCHANGED <<bundleCache, bundleStore, pendingSaves, bytesDownloaded>>
    /\ UNCHANGED notBundleVars

\* getBundleFromOPFS resolves: a hit is promoted to the memory cache, a miss
\* issues the GET for <name>.data.gz
OpfsReadReturns(c) ==
    /\ bcall[c].pc = "opfsRead"
    /\ LET n == bcall[c].name
       IN  IF bundleStore[n] # NoBytes
           THEN /\ bundleCache' = [bundleCache EXCEPT ![n] = bundleStore[n]]
                /\ cacheHitCount' = cacheHitCount + 1
                /\ bcall' = [bcall EXCEPT ![c] =
                      [@ EXCEPT !.pc = "done", !.from = "opfs",
                                !.result = BundleResolved(bundleStore[n])]]
           ELSE /\ bcall' = [bcall EXCEPT ![c] =
                      [@ EXCEPT !.pc = "fetch", !.issued = TRUE]]
                /\ UNCHANGED <<bundleCache, cacheHitCount>>
    /\ UNCHANGED <<bundleStore, pendingSaves, bytesDownloaded>>
    /\ UNCHANGED notBundleVars

\* the GET settles: a rejected fetch or a non-ok status makes loadBundle
\* reject, otherwise the call suspends on response.arrayBuffer()
BundleResponse(c, kind) ==
    /\ bcall[c].pc = "fetch"
    /\ kind \in BundleResponseKinds
    /\ bcall' = [bcall EXCEPT ![c] =
            IF kind \in {"reject", "httpError"}
            THEN [@ EXCEPT !.pc = "done", !.body = kind,
                           !.result = BundleRejected]
            ELSE [@ EXCEPT !.pc = "arrayBuffer", !.body = kind]]
    /\ UNCHANGED <<bundleCache, bundleStore, pendingSaves, bytesDownloaded,
                   cacheHitCount>>
    /\ UNCHANGED notBundleVars

\* response.arrayBuffer() resolves: bytesDownloaded grows, decompress starts
ArrayBufferReturns(c) ==
    /\ bcall[c].pc = "arrayBuffer"
    /\ bytesDownloaded' = bytesDownloaded + GzLength(bcall[c].name)
    /\ bcall' = [bcall EXCEPT ![c] = [@ EXCEPT !.pc = "decompress"]]
    /\ UNCHANGED <<bundleCache, bundleStore, pendingSaves, cacheHitCount>>
    /\ UNCHANGED notBundleVars

\* decompress settles: on success the bytes enter the memory cache,
\* saveBundleToOPFS is started without being awaited, and loadBundle resolves
DecompressReturns(c) ==
    /\ bcall[c].pc = "decompress"
    /\ LET n   == bcall[c].name
           out == decompress(n, bcall[c].body)
       IN  IF out.ok
           THEN /\ bundleCache' = [bundleCache EXCEPT ![n] = out.bytes]
                /\ pendingSaves' = pendingSaves \cup {n}
                /\ bcall' = [bcall EXCEPT ![c] =
                      [@ EXCEPT !.pc = "done", !.from = "network",
                                !.result = BundleResolved(out.bytes)]]
           ELSE /\ bcall' = [bcall EXCEPT ![c] =
                      [@ EXCEPT !.pc = "done", !.result = BundleRejected]]
                /\ UNCHANGED <<bundleCache, pendingSaves>>
    /\ UNCHANGED <<bundleStore, bytesDownloaded, cacheHitCount>>
    /\ UNCHANGED notBundleVars

\* a background saveBundleToOPFS finishes; it is best-effort, so the blob is
\* either stored or the failure is dropped
SaveBundleSettles(n, stored) ==
    /\ n \in pendingSaves
    /\ pendingSaves' = pendingSaves \ {n}
    /\ bundleStore' = IF stored
                      THEN [bundleStore EXCEPT ![n] = bundleCache[n]]
                      ELSE bundleStore
    /\ UNCHANGED <<bundleCache, bytesDownloaded, cacheHitCount, bcall>>
    /\ UNCHANGED notBundleVars

\* the worker is restarted: a new BundleManager over the persisted blob store;
\* saves that were not durable yet are lost
BundleRestart ==
    /\ bundleCache' = [n \in BundleNames |-> NoBytes]
    /\ pendingSaves' = {}
    /\ bytesDownloaded' = 0
    /\ cacheHitCount' = 0
    /\ bcall' = [c \in BundleCalls |-> IdleBundleCall]
    /\ UNCHANGED bundleStore
    /\ UNCHANGED notBundleVars

\* new BundleManager() over an empty blob store
BundleInit ==
    /\ bundleCache = [n \in BundleNames |-> NoBytes]
    /\ bundleStore = [n \in BundleNames |-> NoBytes]
    /\ pendingSaves = {}
    /\ bytesDownloaded = 0
    /\ cacheHitCount = 0
    /\ bcall = [c \in BundleCalls |-> IdleBundleCall]

BundleNext ==
    \/ \E c \in BundleCalls, n \in BundleNames : LoadBundle(c, n)
    \/ \E c \in BundleCalls : OpfsReadReturns(c)
    \/ \E c \in BundleCalls, kind \in BundleResponseKinds :
            BundleResponse(c, kind)
    \/ \E c \in BundleCalls : ArrayBufferReturns(c)
    \/ \E c \in BundleCalls : DecompressReturns(c)
    \/ \E n \in BundleNames, stored \in BOOLEAN : SaveBundleSettles(n, stored)
    \/ BundleRestart

(***************************************************************************)
(* BundleManager.loadBundles (src/unnamed/part_000)                        *)
(***************************************************************************)
\* the bundleNames arguments: up to one name per call slot, repeats allowed
BundleNameLists == SeqsUpTo(BundleNames, MaxBundleCalls)

\* const bundleData = {}, nothing awaited yet
IdleLoadBundles ==
    [pc |-> "idle", names |-> <<>>, collected |-> {},
     bundleData |-> [n \in BundleNames |-> NoBytes], logged |-> {},
     result |-> "pending"]

\* loadBundles(names): bundleNames.map starts loadBundle for every name, each
\* up to its first await; the call then awaits Promise.all
LoadBundles(names) ==
    /\ lbs.pc \in {"idle", "done"}
    /\ \A c \in BundleCalls : bcall[c].pc \in {"idle", "done"}
    /\ bytesDownloaded < MaxBytesDownloaded
    /\ bcall' = [c \in BundleCalls |->
            IF c <= Len(names) THEN EnterLoadBundle(names[c])
            ELSE IdleBundleCall]
    /\ lbs' = [IdleLoadBundles EXCEPT !.pc = "waiting", !.names = names]
    /\ UNCHANGED <<bundleCache, bundleStore, pendingSaves, bytesDownloaded,
                   cacheHitCount>>
    /\ UNCHANGED <<fetcherVars, pmVars, storeFaults, walk, manifestVars,
                   mountVars, compileVars, selectorVars, learnVars,
                   proxyVars>>

LoadBundleSettled_NoCatch(c) ==
    /\ lbs.pc = "waiting"
    /\ c \in 1..Len(lbs.names) /\ c \notin lbs.collected
    /\ bcall[c].pc = "done"
    /\ lbs' = IF bcall[c].result.kind = "resolved"
              THEN [lbs EXCEPT !.collected = @ \cup {c},
                        !.bundleData[lbs.names[c]] = bcall[c].result.bytes]
              ELSE [lbs EXCEPT !.collected = @ \cup {c}, !.pc = "done",
                        !.result = "rejected"]
    /\ UNCHANGED <<fetcherVars, bundleVars, pmVars, storeFaults, walk,
                   manifestVars, mountVars, compileVars, selectorVars, learnVars,
                   proxyVars>>

\* the callback of the c-th name resumes after its await: the bytes are put
\* into bundleData, or the catch block logs the failure
LoadBundleSettled(c) ==
    /\ lbs.pc = "waiting"
    /\ c \in 1..Len(lbs.names) /\ c \notin lbs.collected
    /\ bcall[c].pc = "done"
    /\ lbs' = IF bcall[c].result.kind = "resolved"
              THEN [lbs EXCEPT !.collected = @ \cup {c},
                        !.bundleData[lbs.names[c]] = bcall[c].result.bytes]
              ELSE [lbs EXCEPT !.collected = @ \cup {c},
                        !.logged = @ \cup {c}]
    /\ UNCHANGED <<fetcherVars, bundleVars, pmVars, storeFaults, walk,
                   manifestVars, mountVars, compileVars, selectorVars, learnVars,
                   proxyVars>>

\* Promise.all resolves once every callback has returned: return bundleData
LoadBundlesReturns ==
    /\ lbs.pc = "waiting"
    /\ lbs.collected = 1..Len(lbs.names)
    /\ lbs' = [lbs EXCEPT !.pc = "done", !.result = "resolved"]
    /\ UNCHANGED <<fetcherVars, bundleVars, pmVars, storeFaults, walk,
                   manifestVars, mountVars, compileVars, selectorVars, learnVars,
                   proxyVars>>

LoadBundlesNext ==
    \/ \E names \in BundleNameLists : LoadBundles(names)
    \/ \E c \in BundleCalls : OpfsReadReturns(c)
    \/ \E c \in BundleCalls, kind \in BundleResponseKinds :
            BundleResponse(c, kind)
    \/ \E c \in BundleCalls : ArrayBufferReturns(c)
    \/ \E c \in BundleCalls : DecompressReturns(c)
    \/ \E n \in BundleNames, stored \in BOOLEAN : SaveBundleSettles(n, stored)
    \/ \E c \in BundleCalls : LoadBundleSettled(c)
    \/ LoadBundlesReturns

(***************************************************************************)
(* PackageManager.loadBundle / _loadBundle (src/packages/engine-selector.ts)*)
(***************************************************************************)
LoaderBundles == {"core", "graphics", "tikz"}

\* BUNDLE_DEPENDENCIES, restricted to LoaderBundles
BUNDLE_DEPENDENCIES(n) ==
    CASE n = "graphics" -> <<"core">>
      [] n = "tikz"     -> <<"core", "graphics">>
      [] OTHER          -> <<>>

\* metadata.files of <name>.meta.json, as dir/name
BundleFiles(n) ==
    CASE n = "core"     -> {"/texlive/texmf-dist/tex/latex/base/article.cls"}
      [] n = "graphics" -> {"/texlive/texmf-dist/tex/latex/graphics/graphicx.sty"}
      [] OTHER          -> {"/texlive/texmf-dist/tex/latex/pgf/tikz.sty"}

MetaUrl(n) == <<"meta.json", n>>

DataUrl(n) == <<"data", n>>

NewRun_NoDeps(n, loaded) ==
    [pc |-> "deps", waitOn |-> {}, depFailed |-> FALSE]

\* a fresh execution of _loadBundle(n): it awaits Promise.all over the
\* promises of its dependencies; those of loaded bundles are resolved already
NewRun(n, loaded) ==
    [pc |-> "deps",
     waitOn |-> {d \in Range(BUNDLE_DEPENDENCIES(n)) : d \notin loaded},
     depFailed |-> FALSE]

StartsLoad_NoDedup(n, loaded, loading) == n \notin loaded

\* loadBundle starts _loadBundle(n) only when n is neither loaded nor loading
StartsLoad(n, loaded, loading) == n \notin loaded /\ n \notin loading

RECURSIVE loadBundleSync(_, _), loadDepsSync(_, _)

\* the synchronous part of loadBundle(n), up to its first await, on
\* st = [loading, runs, starts]: _loadBundle(n) first calls loadBundle(d) for
\* every dependency, then its promise is stored in loadingBundles
loadBundleSync(n, st) ==
    IF ~StartsLoad(n, loadedBundles, st.loading)
    THEN st
    ELSE LET st1 == loadDepsSync(BUNDLE_DEPENDENCIES(n), st)
         IN  [loading |-> st1.loading \cup {n},
              runs    |-> [st1.runs EXCEPT ![n] =
                              Append(@, NewRun(n, loadedBundles))],
              starts  |-> [st1.starts EXCEPT ![n] = @ + 1]]

\* deps.map(d => this.loadBundle(d)), left to right
loadDepsSync(ds, st) ==
    IF ds = <<>> THEN st
    ELSE loadDepsSync(Tail(ds), loadBundleSync(Head(ds), st))

IdleLoaderCall == [pc |-> "idle", name |-> NoName, how |-> "none",
                   outcome |-> "none"]

\* an external caller invokes loadBundle(n)
PMLoadBundle(k, n) ==
    /\ pmCalls[k].pc \in {"idle", "done"}
    /\ LET st  == [loading |-> loadingBundles, runs |-> pmRuns,
                   starts |-> pmLog.starts]
           st1 == loadBundleSync(n, st)
       IN  /\ loadingBundles' = st1.loading
           /\ pmRuns' = st1.runs
           /\ pmLog' = [pmLog EXCEPT !.starts = st1.starts]
           /\ pmCalls' = [pmCalls EXCEPT ![k] =
                IF n \in loadedBundles
                THEN [pc |-> "done", name |-> n, how |-> "loaded",
                      outcome |-> "resolved"]
                ELSE IF n \in loadingBundles
                THEN [pc |-> "waiting", name |-> n, how |-> "joined",
                      outcome |-> "none"]
                ELSE [pc |-> "waiting", name |-> n, how |-> "started",
                      outcome |-> "none"]]
    /\ UNCHANGED <<loadedBundles, pmCache, pmFS>>
    /\ UNCHANGED notLoaderVars

RemoveAt(s, i) == SubSeq(s, 1, i - 1) \o SubSeq(s, i + 1, Len(s))

SettleRun_KeepEntry(n, i, ok) ==
    /\ pmRuns' = [m \in LoaderBundles |->
            IF m = n THEN RemoveAt(pmRuns[n], i)
            ELSE [j \in 1..Len(pmRuns[m]) |->
                    IF n \in pmRuns[m][j].waitOn
                    THEN [pmRuns[m][j] EXCEPT !.waitOn = @ \ {n},
                               !.depFailed = @ \/ ~ok]
                    ELSE pmRuns[m][j]]]
    /\ loadingBundles' = IF ok THEN loadingBundles \ {n} ELSE loadingBundles
    /\ loadedBundles' = IF ok THEN loadedBundles \cup {n} ELSE loadedBundles
    /\ pmCalls' = [k \in LoaderCalls |->
            IF pmCalls[k].pc = "waiting" /\ pmCalls[k].name = n
            THEN [pmCalls[k] EXCEPT !.pc = "done",
                      !.outcome = IF ok THEN "resolved" ELSE "rejected"]
            ELSE pmCalls[k]]

\* _loadBundle(n) settles and the continuation of loadBundle runs:
\* loadedBundles.add on success, loadingBundles.delete in any case; the
\* promises handed to callers and to dependent _loadBundle executions settle
SettleRun(n, i, ok) ==
    /\ pmRuns' = [m \in LoaderBundles |->
            IF m = n THEN RemoveAt(pmRuns[n], i)
            ELSE [j \in 1..Len(pmRuns[m]) |->
                    IF n \in pmRuns[m][j].waitOn
                    THEN [pmRuns[m][j] EXCEPT !.waitOn = @ \ {n},
                               !.depFailed = @ \/ ~ok]
                    ELSE pmRuns[m][j]]]
    /\ loadingBundles' = loadingBundles \ {n}
    /\ loadedBundles' = IF ok THEN loadedBundles \cup {n} ELSE loadedBundles
    /\ pmCalls' = [k \in LoaderCalls |->
            IF pmCalls[k].pc = "waiting" /\ pmCalls[k].name = n
            THEN [pmCalls[k] EXCEPT !.pc = "done",
                      !.outcome = IF ok THEN "resolved" ELSE "rejected"]
            ELSE pmCalls[k]]

\* Promise.all over the dependencies resolves: the metadata fetch starts
RunDepsResolved(n, i) ==
    /\ i \in 1..Len(pmRuns[n])
    /\ pmRuns[n][i].pc = "deps"
    /\ pmRuns[n][i].waitOn = {} /\ ~pmRuns[n][i].depFailed
    /\ pmRuns' = [pmRuns EXCEPT ![n][i].pc = "meta"]
    /\ UNCHANGED <<loadedBundles, loadingBundles, pmCache, pmFS, pmCalls,
                   pmLog>>
    /\ UNCHANGED notLoaderVars

\* Promise.all rejects because a dependency failed to load: _loadBundle(n)
\* rejects
RunDepsRejected(n, i) ==
    /\ i \in 1..Len(pmRuns[n])
    /\ pmRuns[n][i].pc = "deps"
    /\ pmRuns[n][i].depFailed
    /\ SettleRun(n, i, FALSE)
    /\ pmLog' = [pmLog EXCEPT !.failed[n] = @ + 1]
    /\ UNCHANGED <<pmCache, pmFS>>
    /\ UNCHANGED notLoaderVars

\* fetchWithCache(url) of stage pc settles: a cached response is returned
\* without network; otherwise the CDN answers, an ok answer is cached and a
\* non-ok answer throws
RunFetched(n, i, stage, ok) ==
    /\ i \in 1..Len(pmRuns[n])
    /\ pmRuns[n][i].pc = stage
    /\ LET url == IF stage = "meta" THEN MetaUrl(n) ELSE DataUrl(n)
       IN  IF url \in pmCache \/ ok
           THEN /\ url \in pmCache => ok
                /\ pmCache' = pmCache \cup {url}
                /\ pmRuns' = [pmRuns EXCEPT ![n][i].pc =
                        IF stage = "meta" THEN "data" ELSE "decompress"]
                /\ UNCHANGED <<loadedBundles, loadingBundles, pmCalls, pmLog>>
           ELSE /\ pmLog.netFailures < MaxLoadFailures
                /\ SettleRun(n, i, FALSE)
                /\ pmLog' = [pmLog EXCEPT !.failed[n] = @ + 1,
                                          !.netFailures = @ + 1]
                /\ UNCHANGED pmCache
    /\ UNCHANGED pmFS
    /\ UNCHANGED notLoaderVars

RunMounted_BeforeWrite(n, i) ==
    /\ i \in 1..Len(pmRuns[n])
    /\ pmRuns[n][i].pc = "decompress"
    /\ pmFS' = pmFS
    /\ SettleRun(n, i, TRUE)
    /\ pmLog' = [pmLog EXCEPT !.mounts[n] = @ + 1]
    /\ UNCHANGED pmCache
    /\ UNCHANGED notLoaderVars

\* decompress resolves and mountBundle writes every file of the metadata
\* (one synchronous loop); _loadBundle(n) resolves
RunMounted(n, i) ==
    /\ i \in 1..Len(pmRuns[n])
    /\ pmRuns[n][i].pc = "decompress"
    /\ pmFS' = pmFS \cup BundleFiles(n)
    /\ SettleRun(n, i, TRUE)
    /\ pmLog' = [pmLog EXCEPT !.mounts[n] = @ + 1]
    /\ UNCHANGED pmCache
    /\ UNCHANGED notLoaderVars

\* new PackageManager(config)
LoaderInit ==
    /\ loadedBundles = {}
    /\ loadingBundles = {}
    /\ pmRuns = [n \in LoaderBundles |-> <<>>]
    /\ pmCache = {}
    /\ pmFS = {}
    /\ pmCalls = [k \in LoaderCalls |-> IdleLoaderCall]
    /\ pmLog = [starts |-> [n \in LoaderBundles |-> 0],
                failed |-> [n \in LoaderBundles |-> 0],
                mounts |-> [n \in LoaderBundles |-> 0],
                netFailures |-> 0]

LoaderNext ==
    \/ \E k \in LoaderCalls, n \in LoaderBundles : PMLoadBundle(k, n)
    \/ \E n \in LoaderBundles, i \in 1..2 : RunDepsResolved(n, i)
    \/ \E n \in LoaderBundles, i \in 1..2 : RunDepsRejected(n, i)
    \/ \E n \in LoaderBundles, i \in 1..2, stage \in {"meta", "data"},
          ok \in BOOLEAN : RunFetched(n, i, stage, ok)
    \/ \E n \in LoaderBundles, i \in 1..2 : RunMounted(n, i)

(***************************************************************************)
(* BundleManager.resolveBundles (src/unnamed/part_000)                     *)
(***************************************************************************)
RequestedPackages == {"tikz", "pgfplots", "lingmacros"}

Engines == {"pdflatex", "xelatex", "lualatex"}

CoreBundles_NoTools == <<"core", "latex-base", "l3", "graphics">>

\* bundles.add('core') ... bundles.add('tools')
CoreBundles == <<"core", "latex-base", "l3", "graphics", "tools">>

\* the engine-specific branch: pdflatex, xelatex, and nothing otherwise
EngineBundles(engine) ==
    CASE engine = "pdflatex" -> <<"fmt-pdflatex", "fonts-cm", "amsfonts">>
      [] engine = "xelatex"  -> <<"fmt-xelatex", "fontspec", "unicode-math">>
      [] OTHER               -> <<>>

PackageBundles == {"tikz", "pgf", "pgfplots"}

\* the bundles the build publishes
AllBundles ==
    {"core", "latex-base", "l3", "graphics", "tools",
     "fmt-pdflatex", "fonts-cm", "amsfonts", "fmt-xelatex", "fontspec",
     "unicode-math", "fmt-lualatex"} \cup PackageBundles

PackageLists == SeqsUpTo(RequestedPackages, MaxPackages)

\* registry.json as served: complete, without a core bundle, without a
\* dependency bundle, without the bundle of a package, and never loaded
\* (bundleRegistry is null)
RegistryChoices ==
    {AllBundles, AllBundles \ {"tools"}, AllBundles \ {"pgf"},
     AllBundles \ {"pgfplots"}, {}}

\* package-map.json: lingmacros is in no bundle
PackageMapChoices ==
    {[p \in RequestedPackages |->
        IF p = "lingmacros" THEN NoName ELSE p],
     [p \in RequestedPackages |-> NoName]}

\* bundle-deps.json: a chain, a cycle, and {} (the fetch failed)
BundleDepsChoices ==
    {[b \in AllBundles |->
        CASE b = "pgfplots" -> <<"tikz">>
          [] b = "tikz"     -> <<"pgf", "graphics">>
          [] OTHER          -> <<>>],
     [b \in AllBundles |->
        CASE b = "tikz" -> <<"pgf">>
          [] b = "pgf"  -> <<"tikz">>
          [] OTHER      -> <<>>],
     [b \in AllBundles |-> <<>>]}

\* package-deps.json: a chain, cycles, and null
PackageDepsChoices ==
    {[p \in RequestedPackages |->
        IF p = "pgfplots" THEN <<"tikz">> ELSE <<>>],
     [p \in RequestedPackages |->
        CASE p = "pgfplots" -> <<"tikz">>
          [] p = "tikz"     -> <<"pgfplots">>
          [] OTHER          -> <<"lingmacros">>],
     [p \in RequestedPackages |-> <<>>]}

\* a null field reads as empty: bundleRegistry?.has(b) ?? false,
\* packageMap?.[pkg], bundleDeps?.[b] || [], packageDeps?.[pkg] || []
NoManifest ==
    [fileManifestSet |-> FALSE, registrySet |-> FALSE,
     packageMapSet |-> FALSE,
     bundleRegistry |-> {},
     packageMap |-> [p \in RequestedPackages |-> NoName],
     bundleDeps |-> [b \in AllBundles |-> <<>>],
     packageDeps |-> [p \in RequestedPackages |-> <<>>]]

\* bundleExists(bundleName)
bundleExists(m, b) == b \in m.bundleRegistry

SetAdd_Dup(seq, x) == Append(seq, x)

\* Set.prototype.add on a set kept in insertion order
SetAdd(seq, x) == IF x \in Range(seq) THEN seq ELSE Append(seq, x)

RECURSIVE AddAll(_, _)

AddAll(seq, xs) ==
    IF xs = <<>> THEN seq ELSE AddAll(SetAdd(seq, Head(xs)), Tail(xs))

RECURSIVE resolvePackage(_, _, _), resolvePackages(_, _, _)

resolvePackage_DepsOfMissing(m, pkg, st) ==
    IF pkg \in st.resolved THEN st
    ELSE LET bundleName == m.packageMap[pkg]
             deps == SelectSeq(m.bundleDeps[bundleName],
                               LAMBDA d : bundleExists(m, d))
             withBundle ==
                IF bundleName # NoName
                THEN AddAll(SetAdd(st.bundles, bundleName), deps)
                ELSE st.bundles
         IN  resolvePackages(m, m.packageDeps[pkg],
                             [bundles |-> withBundle,
                              resolved |-> st.resolved \cup {pkg}])

\* the closure resolvePackage on st = [bundles, resolved]
resolvePackage(m, pkg, st) ==
    IF pkg \in st.resolved THEN st
    ELSE LET bundleName == m.packageMap[pkg]
             deps == SelectSeq(m.bundleDeps[bundleName],
                               LAMBDA d : bundleExists(m, d))
             withBundle ==
                IF bundleName # NoName /\ bundleExists(m, bundleName)
                THEN AddAll(SetAdd(st.bundles, bundleName), deps)
                ELSE st.bundles
         IN  resolvePackages(m, m.packageDeps[pkg],
                             [bundles |-> withBundle,
                              resolved |-> st.resolved \cup {pkg}])

\* for (const dep of pkgDeps) resolvePackage(dep), and the loop over packages
resolvePackages(m, pkgs, st) ==
    IF pkgs = <<>> THEN st
    ELSE resolvePackages(m, Tail(pkgs), resolvePackage(m, Head(pkgs), st))

\* resolveBundles(packages, engine) over the fields m
resolveBundles(m, packages, engine) ==
    LET seeded == AddAll(AddAll(<<>>, CoreBundles), EngineBundles(engine))
        final  == resolvePackages(m, packages,
                                  [bundles |-> seeded, resolved |-> {}])
    IN  SelectSeq(final.bundles, LAMBDA b : bundleExists(m, b))

IdleResolve ==
    [called |-> FALSE, packages |-> <<>>, engine |-> "xelatex",
     result |-> <<>>]

\* a caller invokes resolveBundles(packages, engine); it is synchronous
ResolveBundles(packages, engine) ==
    /\ rcall' = [called |-> TRUE, packages |-> packages, engine |-> engine,
                 result |-> resolveBundles(mf, packages, engine)]
    /\ UNCHANGED <<mf, mcall>>
    /\ UNCHANGED <<fetcherVars, bundleVars, pmVars, storeFaults, walk, mountVars,
                   orchVars>>

IdleManifestCall == [pc |-> "idle", issued |-> FALSE, result |-> "pending"]

ManifestInit ==
    /\ mf = NoManifest
    /\ rcall = IdleResolve
    /\ mcall = [c \in ManifestCalls |-> IdleManifestCall]

\* the BundleManager after loadManifest and loadBundleDeps have settled
\* against one of the served registries (or were never called)
EmptyFS == [dirs |-> {<<>>}, files |-> {}]

IdleMount == [pc |-> "idle", variant |-> "none", files |-> <<>>, log |-> <<>>,
              loaded |-> FALSE]

\* the engine filesystem before any bundle is mounted
MountIdleInit ==
    /\ efs = EmptyFS
    /\ mount = IdleMount

\* the bundles named by the tables of bundle-loader.ts used here
PipelineBundles ==
    {"core", "fonts-cm", "tex-xetex", "tex-xelatex", "dvips", "amsmath",
     "fonts-symbols"}

NoCompileResult == [kind |-> "pending", success |-> FALSE]

IdleCompile ==
    [pc |-> "idle", packages |-> <<>>, driver |-> "undefined",
     waitOn |-> {}, required |-> {}, inputsWritten |-> FALSE,
     engineRuns |-> 0, outcome |-> "none", fetched |-> {},
     cause |-> "none", result |-> NoCompileResult]

\* new SplitBundlePipeline(...): not initialized, nothing loaded
NewPipeline ==
    [initialized |-> FALSE, loaded |-> {},
     orphans |-> [b \in PipelineBundles |-> 0]]

\* the lines of a source, as far as the selector's regular expressions tell
\* them apart: \usepackage{arg}, \RequirePackage{arg}, a command \arg, a
\* character of a script, each possibly behind a % on its line
Line(kind, arg, commented) ==
    [kind |-> kind, arg |-> arg, commented |-> commented]

Sources ==
    {<<>>,
     <<Line("usepackage", "fontspec", FALSE)>>,
     <<Line("usepackage", "luacode", FALSE),
       Line("usepackage", "fontspec", FALSE)>>,
     <<Line("command", "directlua", FALSE)>>,
     <<Line("command", "setmainfont", TRUE)>>,
     <<Line("usepackage", "fontspec", TRUE)>>,
     <<Line("RequirePackage", "luacode", FALSE)>>,
     <<Line("usepackage", "geometry", FALSE)>>,
     <<Line("script", "cjk", FALSE)>>,
     <<Line("command", "directlua", FALSE), Line("script", "cjk", FALSE)>>}

\* source.replace(/%.*$/gm, '')
withoutComments(source) == SelectSeq(source, LAMBDA l : ~l.commented)

\* hashPreamble(extractPreamble(source)): the hash of the preamble without
\* its comments, taken as collision-free
Fingerprint(source) == withoutComments(source)

Fingerprints == {Fingerprint(src) : src \in Sources}

NoSelection == [engine |-> "none", confidence |-> "none", rule |-> "none"]

IdleSelect ==
    [pc |-> "idle", source |-> <<>>, stats |-> <<>>, result |-> NoSelection]

\* an adapter over an empty storage
EmptyStore == [fp \in Fingerprints |-> [stats |-> <<>>, cmsuper |-> FALSE]]

\* the slots of pending recordResult calls
RecordCalls == 1..MaxRecordCalls

\* the sources whose compiles are recorded
RecordSources == {<<>>}

NoResult ==
    [engine |-> "none", success |-> FALSE, timeMs |-> 0,
     triggeredCmSuper |-> FALSE]

IdleRecord ==
    [pc |-> "idle", fp |-> <<>>, result |-> NoResult, stats |-> <<>>]

\* no result has been handed to recordResult
NoHistory ==
    [fp \in Fingerprints |->
        [e \in {"pdflatex", "xelatex", "lualatex"} |->
            [results |-> 0, successes |-> 0]]]

IdleClear == [pc |-> "idle", keys |-> {}]

LearnIdleInit ==
    /\ lcall = [c \in RecordCalls |-> IdleRecord]
    /\ hist = NoHistory
    /\ clr = IdleClear

\* the package names the proxy is asked for or hears of: "etex" has a
\* bootstrap alias, "pb" is reported as the parent of other packages
ProxyNames == {"etex", "etex-pkg", "pa", "pb"}

\* the keys of pkgFetchCache: loadDiskCache also loads _aliases.json
CacheKeys == ProxyNames \cup {"_aliases"}

\* an entry of pkgFetchCache, as far as its files go
Absent == [present |-> FALSE, files |-> {}]

Entry(files) == [present |-> TRUE, files |-> files]

NoAliases == [n \in ProxyNames |-> "none"]

\* the slots of the requests being served
Requests == 1..MaxRequests

NoResponse == [status |-> 0, served |-> "none"]

IdleRequest ==
    [pc |-> "idle", requested |-> "none", resolved |-> "none",
     pkgName |-> "none", url |-> "none", response |-> NoResponse]

\* a proxy started over an empty cache directory
NewProxy ==
    [aliases |-> NoAliases,
     cache |-> [k \in CacheKeys |-> Absent],
     aliasFile |-> FALSE,
     diskAliases |-> NoAliases,
     diskCache |-> [n \in ProxyNames |-> Absent],
     restarts |-> 0]

ProxyInit ==
    /\ proxy = NewProxy
    /\ preq = [r \in Requests |-> IdleRequest]

\* nothing above the loaders has been called yet
OrchInit ==
    /\ lbs = IdleLoadBundles
    /\ comp = IdleCompile
    /\ pl = NewPipeline
    /\ selStore = EmptyStore
    /\ scall = IdleSelect
    /\ LearnIdleInit
    /\ ProxyInit

ResolveInit ==
    /\ FetcherInit /\ BundleInit /\ LoaderInit
    /\ storeFaults = 0
    /\ walk = IdleWalk
    /\ rcall = IdleResolve
    /\ mcall = [c \in ManifestCalls |-> IdleManifestCall]
    /\ MountIdleInit
    /\ OrchInit
    /\ \E reg \in RegistryChoices, pm \in PackageMapChoices,
          bd \in BundleDepsChoices, pd \in PackageDepsChoices :
            mf = [fileManifestSet |-> reg # {}, registrySet |-> reg # {},
                  packageMapSet |-> reg # {},
                  bundleRegistry |-> reg,
                  packageMap |-> IF reg = {} THEN NoManifest.packageMap
                                 ELSE pm,
                  bundleDeps |-> bd, packageDeps |-> pd]

ResolveNext ==
    \E packages \in PackageLists, engine \in Engines :
        ResolveBundles(packages, engine)

(***************************************************************************)
(* BundleManager.loadManifest (src/unnamed/part_000)                       *)
(***************************************************************************)
\* registry.json and package-map.json as served
ServedRegistry == AllBundles

ServedPackageMap ==
    [p \in RequestedPackages |-> IF p = "lingmacros" THEN NoName ELSE p]

\* a caller invokes loadManifest(): with fileManifest set it returns at once,
\* otherwise the three fetches are issued and awaited together
LoadManifest(c) ==
    /\ mcall[c].pc \in {"idle", "done"}
    /\ mcall' = [mcall EXCEPT ![c] =
            IF mf.fileManifestSet
            THEN [pc |-> "done", issued |-> FALSE, result |-> "resolved"]
            ELSE [pc |-> "fetching", issued |-> TRUE, result |-> "pending"]]
    /\ UNCHANGED <<mf, rcall>>
    /\ UNCHANGED <<fetcherVars, bundleVars, pmVars, storeFaults, walk, mountVars,
                   orchVars>>

\* Promise.all over the three fetches settles; a rejected fetch rejects
\* loadManifest
ManifestFetched(c, ok) ==
    /\ mcall[c].pc = "fetching"
    /\ mcall' = [mcall EXCEPT ![c] =
            IF ok THEN [@ EXCEPT !.pc = "manifestJson"]
            ELSE [@ EXCEPT !.pc = "done", !.result = "rejected"]]
    /\ UNCHANGED <<mf, rcall>>
    /\ UNCHANGED <<fetcherVars, bundleVars, pmVars, storeFaults, walk, mountVars,
                   orchVars>>

\* the pending json() resolves and its field is assigned: fileManifest, then
\* bundleRegistry, then packageMap, each after an await of its own; a body
\* that does not parse rejects loadManifest
ManifestJson(c, ok) ==
    /\ mcall[c].pc \in {"manifestJson", "registryJson", "packageMapJson"}
    /\ IF ~ok
       THEN /\ mcall' = [mcall EXCEPT ![c] =
                  [@ EXCEPT !.pc = "done", !.result = "rejected"]]
            /\ UNCHANGED mf
       ELSE CASE mcall[c].pc = "manifestJson" ->
                  /\ mf' = [mf EXCEPT !.fileManifestSet = TRUE]
                  /\ mcall' = [mcall EXCEPT ![c].pc = "registryJson"]
              [] mcall[c].pc = "registryJson" ->
                  /\ mf' = [mf EXCEPT !.registrySet = TRUE,
                                      !.bundleRegistry = ServedRegistry]
                  /\ mcall' = [mcall EXCEPT ![c].pc = "packageMapJson"]
              [] OTHER ->
                  /\ mf' = [mf EXCEPT !.packageMapSet = TRUE,
                                      !.packageMap = ServedPackageMap]
                  /\ mcall' = [mcall EXCEPT ![c] =
                        [@ EXCEPT !.pc = "done", !.result = "resolved"]]
    /\ UNCHANGED rcall
    /\ UNCHANGED <<fetcherVars, bundleVars, pmVars, storeFaults, walk, mountVars,
                   orchVars>>

ManifestNext ==
    \/ \E c \in ManifestCalls : LoadManifest(c)
    \/ \E c \in ManifestCalls, ok \in BOOLEAN : ManifestFetched(c, ok)
    \/ \E c \in ManifestCalls, ok \in BOOLEAN : ManifestJson(c, ok)

(***************************************************************************)
(* mountBundle: BundleLoader (src/packages/bundle-loader.ts) and           *)
(* PackageManager (src/packages/engine-selector.ts), over an Emscripten FS *)
(***************************************************************************)
\* the decompressed payload of the bundle
Payload == <<10, 20, 30>>

\* file.path after split('/').filter(Boolean); paths are absolute. The bundle
\* builder emits paths under /texmf/, the README asks for /texlive/
FilePaths == {<<"texlive">>, <<"texlive", "tex">>, <<"texmf">>}

\* "tex" as a file name collides with the directory /texlive/tex
FileNames == {"a.sty", "tex"}

\* file.start, file.end: in range, empty, past the end, reversed
Extents == {<<0, 2>>, <<2, 3>>, <<1, 1>>, <<1, 5>>, <<3, 1>>}

BundleFileEntries ==
    [path : FilePaths, name : FileNames, extent : Extents]

MetadataFiles == SeqsUpTo(BundleFileEntries, MaxFiles)

Min(a, b) == IF a < b THEN a ELSE b

Max(a, b) == IF a > b THEN a ELSE b

\* the index a relative offset of TypedArray.prototype.slice denotes
Clamp(k, len) == IF k < 0 THEN Max(len + k, 0) ELSE Min(k, len)

Slice_Inclusive(data, start, end) ==
    SubSeq(data, Clamp(start, Len(data)) + 1, Clamp(end, Len(data)) + 1)

\* data.slice(start, end)
Slice(data, start, end) ==
    SubSeq(data, Clamp(start, Len(data)) + 1, Clamp(end, Len(data)))

Parent(p) == SubSeq(p, 1, Len(p) - 1)

IsDir(fs, p) == p \in fs.dirs

IsFile(fs, p) == \E f \in fs.files : f.path = p

\* FS.mkdir(p) succeeds when the parent is a directory and p does not exist
CanMkdir(fs, p) == IsDir(fs, Parent(p)) /\ ~IsDir(fs, p) /\ ~IsFile(fs, p)

RECURSIVE ensureDirectoryFrom(_, _, _)

\* ensureDirectory: FS.mkdir on every prefix of the path, errors ignored
ensureDirectoryFrom(fs, parts, k) ==
    IF k > Len(parts) THEN fs
    ELSE LET current == SubSeq(parts, 1, k)
         IN  ensureDirectoryFrom(
                 IF CanMkdir(fs, current)
                 THEN [fs EXCEPT !.dirs = @ \cup {current}] ELSE fs,
                 parts, k + 1)

ensureDirectory(fs, parts) == ensureDirectoryFrom(fs, parts, 1)

\* FS.writeFile(p, bytes) succeeds when the parent is a directory and p is
\* not one; it replaces an existing file
CanWrite(fs, p) == IsDir(fs, Parent(p)) /\ ~IsDir(fs, p)

writeFile(fs, p, bytes) ==
    [fs EXCEPT !.files = {f \in @ : f.path # p} \cup
                             {[path |-> p, bytes |-> bytes]}]

\* FS.unlink(p) succeeds on a regular file
unlink(fs, p) == [fs EXCEPT !.files = {f \in @ : f.path # p}]

\* the try/catch around FS.writeFile: BundleLoader logs and goes on;
\* PackageManager unlinks and writes again, and warns when that fails too
\* the catch branch that reports the failure: onLog / console.warn
tryWrite_Silent(variant, fs, p, bytes) ==
    IF CanWrite(fs, p)
    THEN [fs |-> writeFile(fs, p, bytes), written |-> TRUE, logged |-> FALSE]
    ELSE [fs |-> fs, written |-> FALSE, logged |-> FALSE]

tryWrite(variant, fs, p, bytes) ==
    IF CanWrite(fs, p)
    THEN [fs |-> writeFile(fs, p, bytes), written |-> TRUE, logged |-> FALSE]
    ELSE IF variant = "PackageManager" /\ IsFile(fs, p)
              /\ CanWrite(unlink(fs, p), p)
    THEN [fs |-> writeFile(unlink(fs, p), p, bytes), written |-> TRUE,
          logged |-> FALSE]
    ELSE [fs |-> fs, written |-> FALSE, logged |-> TRUE]

RECURSIVE mountFiles(_, _, _, _)

\* the loop over metadata.files on st = [fs, log]
mountFiles(variant, files, k, st) ==
    IF k > Len(files) THEN st
    ELSE LET file     == files[k]
             fullPath == Append(file.path, file.name)
             fs1      == ensureDirectory(st.fs, file.path)
             fileData == Slice(Payload, file.extent[1], file.extent[2])
             out      == tryWrite(variant, fs1, fullPath, fileData)
         IN  mountFiles(variant, files, k + 1,
                 [fs  |-> out.fs,
                  log |-> Append(st.log,
                            [path |-> fullPath, bytes |-> fileData,
                             dirReady |-> IsDir(fs1, file.path),
                             written |-> out.written,
                             logged |-> out.logged])])

\* mountBundle runs its loop over the files of the metadata (one synchronous
\* run once metadata and payload are at hand) and resolves; the bundle is
\* added to loadedBundles (by BundleLoader.mountBundle itself, by
\* PackageManager.loadBundle after its await)
MountBundle(variant, files) ==
    /\ mount.pc = "idle"
    /\ LET out == mountFiles(variant, files, 1, [fs |-> efs, log |-> <<>>])
       IN  /\ efs' = out.fs
           /\ mount' = [pc |-> "done", variant |-> variant, files |-> files,
                        log |-> out.log, loaded |-> TRUE]
    /\ UNCHANGED <<fetcherVars, bundleVars, pmVars, storeFaults, walk,
                   manifestVars, orchVars>>

\* the engine filesystem as earlier bundles left it: empty, holding a.sty, or
\* holding a regular file where this bundle wants a directory
MountInit ==
    /\ FetcherInit /\ BundleInit /\ LoaderInit
    /\ storeFaults = 0
    /\ walk = IdleWalk
    /\ ManifestInit
    /\ OrchInit
    /\ mount = IdleMount
    /\ efs \in {EmptyFS,
                [dirs |-> {<<>>, <<"texlive">>},
                 files |-> {[path |-> <<"texlive", "a.sty">>,
                             bytes |-> <<99>>]}],
                [dirs |-> {<<>>, <<"texlive">>},
                 files |-> {[path |-> <<"texlive", "tex">>,
                             bytes |-> <<99>>]}]}

MountNext ==
    /\ mount.pc = "idle"
    /\ \E variant \in {"BundleLoader", "PackageManager"},
          files \in MetadataFiles : MountBundle(variant, files)

(***************************************************************************)
(* SplitBundlePipeline.compile (src/packages/ctan-proxy.ts) over           *)
(* BundleLoader (src/packages/bundle-loader.ts)                            *)
(***************************************************************************)
\* PACKAGE_TO_BUNDLE, restricted to the packages of the documents below;
\* "foo" is a package no bundle provides
PACKAGE_TO_BUNDLE(pkg) ==
    CASE pkg = "amsmath" -> <<"amsmath", "fonts-symbols">>
      [] pkg = "article" -> <<"core">>
      [] OTHER           -> <<>>

\* ENGINE_BUNDLES[engine] || ENGINE_BUNDLES['xetex']
ENGINE_BUNDLES(engine) ==
    CASE engine = "pdftex" -> <<"core", "fonts-cm", "dvips">>
      [] OTHER             -> <<"core", "fonts-cm", "tex-xetex", "tex-xelatex">>

\* parsePackages(mainContent) of the documents compiled
DocPackages == {<<>>, <<"amsmath">>, <<"amsmath", "foo">>, <<"foo">>}

\* options.driver
Drivers == {"xetex_bibtex8_dvipdfmx", "pdftex_bibtex8", "undefined"}

\* options.driver?.startsWith('xetex') ? 'xetex' :
\* options.driver?.startsWith('pdftex') ? 'pdftex' : 'xetex'
DriverEngine(driver) ==
    IF driver = "pdftex_bibtex8" THEN "pdftex" ELSE "xetex"

\* BundleLoader.resolveBundles(packages)
loaderResolveBundles(packages) ==
    UNION {Range(PACKAGE_TO_BUNDLE(packages[i])) : i \in 1..Len(packages)}

\* what callMain and the reads after it can end in: a PDF, an engine error,
\* or a run that stops on a file it cannot find
EngineOutcomes(packages) ==
    IF \E i \in 1..Len(packages) : PACKAGE_TO_BUNDLE(packages[i]) = <<>>
    THEN {"missingFile"}
    ELSE {"pdf", "error"}

AllMounted_Any(waitOn) == TRUE

\* await Promise.all(toLoad.map(b => this.mountBundle(b))) has resolved
AllMounted(waitOn) == waitOn = {}

\* compile() from ensurePackagesLoaded up to its await: loadBundles filters
\* out the loaded bundles and starts mountBundle for the others
EnterPackages(c, loaded) ==
    LET bundles == loaderResolveBundles(c.packages)
    IN  [c EXCEPT !.pc = "packages", !.waitOn = bundles \ loaded,
                  !.required = bundles]

\* a caller invokes compile(files, options)
CompileCall(packages, driver) ==
    /\ comp.pc \in {"idle", "done"}
    /\ \A b \in PipelineBundles : pl.orphans[b] < MaxOrphans
    /\ LET c == [IdleCompile EXCEPT !.packages = packages, !.driver = driver]
       IN  comp' = IF pl.initialized THEN EnterPackages(c, pl.loaded)
                   ELSE [c EXCEPT !.pc = "init"]
    /\ UNCHANGED pl
    /\ UNCHANGED <<fetcherVars, bundleVars, pmVars, storeFaults, walk,
                   manifestVars, mountVars, lbs, selectorVars, learnVars,
                   proxyVars>>

\* init() settles: the script, the module and the core bundle are there, or
\* it rejects and compile rejects with it
InitSettles(ok) ==
    /\ comp.pc = "init"
    /\ IF ok
       THEN /\ pl' = [pl EXCEPT !.initialized = TRUE,
                                !.loaded = @ \cup {"core"}]
            /\ comp' = EnterPackages(comp, pl.loaded \cup {"core"})
       ELSE /\ comp' = [comp EXCEPT !.pc = "done", !.cause = "init",
                             !.result = [kind |-> "rejected",
                                         success |-> FALSE]]
            /\ UNCHANGED pl
    /\ UNCHANGED <<fetcherVars, bundleVars, pmVars, storeFaults, walk,
                   manifestVars, mountVars, lbs, selectorVars, learnVars,
                   proxyVars>>

\* mountBundle(b) of the pending loadBundles settles: the bundle is mounted
\* and added to loadedBundles, or loadMetadata / loadBundleData threw, which
\* rejects Promise.all and with it compile; the other mounts go on unawaited
MountSettles(b, ok) ==
    /\ comp.pc \in {"packages", "engineReqs"}
    /\ b \in comp.waitOn
    /\ IF ok
       THEN /\ pl' = [pl EXCEPT !.loaded = @ \cup {b}]
            /\ comp' = [comp EXCEPT !.waitOn = @ \ {b}]
       ELSE /\ pl' = [pl EXCEPT !.orphans =
                        [x \in PipelineBundles |->
                            IF x \in comp.waitOn \ {b} THEN @[x] + 1
                            ELSE @[x]]]
            /\ comp' = [comp EXCEPT !.pc = "done", !.waitOn = {},
                             !.cause = "bundle",
                             !.result = [kind |-> "rejected",
                                         success |-> FALSE]]
    /\ UNCHANGED <<fetcherVars, bundleVars, pmVars, storeFaults, walk,
                   manifestVars, mountVars, lbs, selectorVars, learnVars,
                   proxyVars>>

\* a mount left behind by a rejected compile settles
OrphanSettles(b, ok) ==
    /\ pl.orphans[b] > 0
    /\ pl' = [pl EXCEPT !.orphans[b] = @ - 1,
                        !.loaded = IF ok THEN @ \cup {b} ELSE @]
    /\ UNCHANGED comp
    /\ UNCHANGED <<fetcherVars, bundleVars, pmVars, storeFaults, walk,
                   manifestVars, mountVars, lbs, selectorVars, learnVars,
                   proxyVars>>

\* ensurePackagesLoaded resolves: loadEngineRequirements(engine) starts
PackagesLoaded ==
    /\ comp.pc = "packages"
    /\ AllMounted(comp.waitOn)
    /\ LET bundles == Range(ENGINE_BUNDLES(DriverEngine(comp.driver)))
       IN  comp' = [comp EXCEPT !.pc = "engineReqs",
                         !.waitOn = bundles \ pl.loaded,
                         !.required = @ \cup bundles]
    /\ UNCHANGED pl
    /\ UNCHANGED <<fetcherVars, bundleVars, pmVars, storeFaults, walk,
                   manifestVars, mountVars, lbs, selectorVars, learnVars,
                   proxyVars>>

\* loadEngineRequirements resolves: the input files are written (a throw of
\* FS.writeFile rejects compile), then runTeX runs the engine once and
\* compile resolves with its result
RunTeX(written, outcome) ==
    /\ comp.pc = "engineReqs"
    /\ AllMounted(comp.waitOn)
    /\ outcome \in EngineOutcomes(comp.packages)
    /\ comp' = IF written
               THEN [comp EXCEPT !.pc = "done", !.inputsWritten = TRUE,
                          !.engineRuns = @ + 1, !.outcome = outcome,
                          !.result = [kind |-> "resolved",
                                      success |-> outcome = "pdf"]]
               ELSE [comp EXCEPT !.pc = "done", !.cause = "inputs",
                          !.result = [kind |-> "rejected",
                                      success |-> FALSE]]
    /\ UNCHANGED pl
    /\ UNCHANGED <<fetcherVars, bundleVars, pmVars, storeFaults, walk,
                   manifestVars, mountVars, lbs, selectorVars, learnVars,
                   proxyVars>>

CompileNext ==
    \/ \E packages \in DocPackages, driver \in Drivers :
            CompileCall(packages, driver)
    \/ \E ok \in BOOLEAN : InitSettles(ok)
    \/ \E b \in PipelineBundles, ok \in BOOLEAN : MountSettles(b, ok)
    \/ \E b \in PipelineBundles, ok \in BOOLEAN : OrphanSettles(b, ok)
    \/ PackagesLoaded
    \/ \E written \in BOOLEAN, outcome \in {"pdf", "error", "missingFile"} :
            RunTeX(written, outcome)

(***************************************************************************)
(* EngineSelector.select (src/packages/engine-selector.ts)                 *)
(***************************************************************************)
\* const alternatives: Engine[] = ['pdflatex', 'xelatex', 'lualatex']
Alternatives == <<"pdflatex", "xelatex", "lualatex">>

\* the keys of this.requirements, in insertion order
RequirementOrder == <<"xelatex", "lualatex">>

\* getDefaultRequirements(): packages
RequiredPackages(engine) ==
    CASE engine = "xelatex" ->
            {"fontspec", "unicode-math", "polyglossia", "xeCJK", "xunicode",
             "xltxtra", "mathspec", "realscripts", "metalogo", "xetex"}
      [] engine = "lualatex" ->
            {"luacode", "luatexbase", "luaotfload", "luamplib", "luatextra"}
      [] OTHER -> {}

\* getDefaultRequirements(): commands
RequiredCommands(engine) ==
    CASE engine = "xelatex" ->
            {"setmainfont", "setsansfont", "setmonofont", "newfontfamily",
             "setmathfont", "defaultfontfeatures"}
      [] engine = "lualatex" -> {"directlua", "luaexec", "luadirect"}
      [] OTHER -> {}

\* getDefaultRequirements(): scripts (the one of lualatex never matches)
RequiredScripts(engine) ==
    IF engine = "xelatex" THEN {"arabic", "devanagari", "thai", "cjk", "hangul"}
    ELSE {}

\* getDefaultPreferences()
PreferredPackages(engine) ==
    IF engine = "xelatex"
    THEN {"geometry", "fancyhdr", "titlesec", "enumitem", "babel", "inputenc",
          "fontenc"}
    ELSE {}

\* extractPackages(source): the regular expression runs over the raw source,
\* comments included, and does not look at \RequirePackage
extractPackages(source) ==
    LET lines == SelectSeq(source, LAMBDA l : l.kind = "usepackage")
    IN  [i \in 1..Len(lines) |-> lines[i].arg]

Selection(engine, confidence, rule) ==
    [engine |-> engine, confidence |-> confidence, rule |-> rule]

\* one engine of the loop of checkRequirements
EngineRequired(engine, source, packages) ==
    \/ \E i \in 1..Len(packages) : packages[i] \in RequiredPackages(engine)
    \/ \E i \in 1..Len(withoutComments(source)) :
          LET l == withoutComments(source)[i]
          IN  \/ l.kind = "command" /\ l.arg \in RequiredCommands(engine)
              \/ l.kind = "script" /\ l.arg \in RequiredScripts(engine)

checkRequirements_PackagesOnly(source, packages) ==
    IF \E i \in 1..Len(packages) : packages[i] \in RequiredPackages("xelatex")
    THEN Selection("xelatex", "high", "requirement")
    ELSE IF \E i \in 1..Len(packages) :
                packages[i] \in RequiredPackages("lualatex")
    THEN Selection("lualatex", "high", "requirement")
    ELSE NoSelection

\* checkRequirements(source, packages): the first engine of the map with a
\* matching package, command or script; null when there is none
checkRequirements(source, packages) ==
    LET hits == SelectSeq(RequirementOrder,
                    LAMBDA e : EngineRequired(e, source, packages))
    IN  IF hits = <<>> THEN NoSelection
        ELSE Selection(hits[1], "high", "requirement")

\* checkPreferences(packages)
checkPreferences(packages) ==
    IF \E i \in 1..Len(packages) : packages[i] \in PreferredPackages("xelatex")
    THEN Selection("xelatex", "medium", "preference")
    ELSE NoSelection

\* successRate is kept as a fraction <<successes, compiles>>
RateAboveHalf(r) == 2 * r[1] > r[2]

RateBelowHalf(r) == 2 * r[1] < r[2]

\* stats.filter(s => s.successRate > 0.5 && s.compileCount >= 2)
Successful(stats) ==
    SelectSeq(stats, LAMBDA st : RateAboveHalf(st.successRate)
                                    /\ st.compileCount >= 2)

Fastest_First(entries) == entries[1]

RECURSIVE FastestFrom(_, _, _)

FastestFrom(entries, a, k) ==
    IF k > Len(entries) THEN a
    ELSE FastestFrom(entries,
             IF a.avgTimeMs < entries[k].avgTimeMs THEN a ELSE entries[k],
             k + 1)

\* successful.reduce((a, b) => a.avgTimeMs < b.avgTimeMs ? a : b)
Fastest(entries) == FastestFrom(entries, entries[1], 2)

fromStats_FirstAlternative(stats) ==
    LET successful == Successful(stats)
    IN  IF successful # <<>>
        THEN Selection(Fastest(successful).engine, "high", "historical")
        ELSE IF \E i \in 1..Len(stats) : RateBelowHalf(stats[i].successRate)
        THEN Selection(Alternatives[1], "medium", "avoidance")
        ELSE NoSelection

\* the branch of select over the statistics read for the fingerprint
fromStats(stats) ==
    LET successful == Successful(stats)
        failed == {stats[i].engine : i \in
                     {j \in 1..Len(stats) : RateBelowHalf(stats[j].successRate)}}
        viable == SelectSeq(Alternatives, LAMBDA e : e \notin failed)
    IN  IF successful # <<>>
        THEN Selection(Fastest(successful).engine, "high", "historical")
        ELSE IF failed # {} /\ viable # <<>>
        THEN Selection(viable[1], "medium", "avoidance")
        ELSE NoSelection

\* a caller invokes select(source): the call suspends on hashPreamble
Select(source) ==
    /\ scall.pc = "idle"
    /\ scall' = [IdleSelect EXCEPT !.pc = "hash", !.source = source]
    /\ UNCHANGED selStore
    /\ UNCHANGED <<fetcherVars, bundleVars, pmVars, storeFaults, walk,
                   manifestVars, mountVars, lbs, compileVars, learnVars,
                   proxyVars>>

\* hashPreamble resolves: a hard requirement is returned at once, otherwise
\* the call suspends on getStats
SelectHashed ==
    /\ scall.pc = "hash"
    /\ LET required == checkRequirements(scall.source,
                                         extractPackages(scall.source))
       IN  scall' = IF required # NoSelection
                    THEN [scall EXCEPT !.pc = "done", !.result = required]
                    ELSE [scall EXCEPT !.pc = "getStats"]
    /\ UNCHANGED selStore
    /\ UNCHANGED <<fetcherVars, bundleVars, pmVars, storeFaults, walk,
                   manifestVars, mountVars, lbs, compileVars, learnVars,
                   proxyVars>>

\* getStats resolves: historical best or avoidance, otherwise the call
\* suspends on the read of the cm-super flag
SelectStatsRead ==
    /\ scall.pc = "getStats"
    /\ LET stats == selStore[Fingerprint(scall.source)].stats
           chosen == fromStats(stats)
       IN  scall' = IF chosen # NoSelection
                    THEN [scall EXCEPT !.pc = "done", !.stats = stats,
                                       !.result = chosen]
                    ELSE [scall EXCEPT !.pc = "getFlag", !.stats = stats]
    /\ UNCHANGED selStore
    /\ UNCHANGED <<fetcherVars, bundleVars, pmVars, storeFaults, walk,
                   manifestVars, mountVars, lbs, compileVars, learnVars,
                   proxyVars>>

\* the flag read resolves: learned flag, soft preference or default
SelectFlagRead ==
    /\ scall.pc = "getFlag"
    /\ LET preferred == checkPreferences(extractPackages(scall.source))
       IN  scall' = [scall EXCEPT !.pc = "done", !.result =
                IF selStore[Fingerprint(scall.source)].cmsuper
                THEN Selection("xelatex", "high", "cmsuper")
                ELSE IF preferred # NoSelection THEN preferred
                ELSE Selection("pdflatex", "low", "default")]
    /\ UNCHANGED selStore
    /\ UNCHANGED <<fetcherVars, bundleVars, pmVars, storeFaults, walk,
                   manifestVars, mountVars, lbs, compileVars, learnVars,
                   proxyVars>>

(***************************************************************************)
(* EngineSelector.recordResult and clearHistory                            *)
(* (src/packages/engine-selector.ts)                                       *)
(***************************************************************************)
\* result.timeMs: multiples of 600, so that the running mean of up to six of
\* them is a whole number and the divisions below are exact
TimesMs == {600, 1200}

\* the CompileResult values handed to recordResult
Result(engine, success, timeMs, triggeredCmSuper) ==
    [engine |-> engine, success |-> success, timeMs |-> timeMs,
     triggeredCmSuper |-> triggeredCmSuper]

Results ==
    {Result(e, ok, t, FALSE) :
        e \in {"pdflatex", "xelatex"}, ok \in BOOLEAN, t \in TimesMs}
      \cup {Result(e, FALSE, 600, TRUE) : e \in {"pdflatex", "xelatex"}}

\* the sources select is asked about while results are recorded: without
\* and with a hard requirement, under recorded and unrecorded fingerprints
LearnSources ==
    {<<>>,
     <<Line("usepackage", "fontspec", TRUE)>>,
     <<Line("usepackage", "geometry", FALSE)>>}

\* the results of callers that do not wait for one another
RacingResults ==
    {r \in Results : r.timeMs = 600 /\ (r.triggeredCmSuper => r.engine = "pdflatex")}

\* what an earlier session may have left under the recorded fingerprint
PriorStats ==
    {<<>>,
     <<[engine |-> "lualatex", compileCount |-> 2, avgTimeMs |-> 900,
        successRate |-> <<2, 2>>]>>}

\* stats.find(s => s.engine === result.engine): its index, 0 when not found
FindEngine(stats, engine) ==
    IF \E i \in 1..Len(stats) : stats[i].engine = engine
    THEN CHOOSE i \in 1..Len(stats) :
            /\ stats[i].engine = engine
            /\ \A j \in 1..(i - 1) : stats[j].engine # engine
    ELSE 0

NewEngineStats(engine) ==
    [engine |-> engine, compileCount |-> 0, avgTimeMs |-> 0,
     successRate |-> <<0, 1>>]

\* the running averages of recordResult over n = compileCount
UpdatedStats_NoSuccess(e, result) ==
    LET n == e.compileCount
    IN  [engine |-> e.engine,
         compileCount |-> n + 1,
         avgTimeMs |-> (e.avgTimeMs * n + result.timeMs) \div (n + 1),
         successRate |-> <<(e.successRate[1] * n) \div e.successRate[2],
                           n + 1>>]

UpdatedStats(e, result) ==
    LET n == e.compileCount
    IN  [engine |-> e.engine,
         compileCount |-> n + 1,
         avgTimeMs |-> (e.avgTimeMs * n + result.timeMs) \div (n + 1),
         successRate |-> <<(e.successRate[1] * n) \div e.successRate[2]
                               + (IF result.success THEN 1 ELSE 0),
                           n + 1>>]

\* the array recordResult hands to saveStats, from the array it read
recordInto(stats, result) ==
    LET found == FindEngine(stats, result.engine)
        all == IF found = 0
               THEN Append(stats, NewEngineStats(result.engine))
               ELSE stats
        i == IF found = 0 THEN Len(all) ELSE found
    IN  [all EXCEPT ![i] = UpdatedStats(all[i], result)]

TotalResults ==
    LET fp == Fingerprint(<<>>)
    IN  hist[fp]["pdflatex"].results + hist[fp]["xelatex"].results
            + hist[fp]["lualatex"].results

learnFrame ==
    <<fetcherVars, bundleVars, pmVars, storeFaults, walk, manifestVars,
      mountVars, lbs, compileVars, scall, proxyVars>>

\* a caller invokes recordResult(source, result): the call suspends on
\* hashPreamble and then on getStats
RecordResult(c, source, result) ==
    /\ lcall[c].pc \in {"idle", "done"}
    /\ TotalResults < MaxResults
    /\ lcall' = [lcall EXCEPT ![c] =
            [IdleRecord EXCEPT !.pc = "getStats", !.fp = Fingerprint(source),
                               !.result = result]]
    /\ hist' = [hist EXCEPT ![Fingerprint(source)][result.engine] =
            [results |-> @.results + 1,
             successes |-> @.successes + (IF result.success THEN 1 ELSE 0)]]
    /\ UNCHANGED <<selStore, clr>>
    /\ UNCHANGED learnFrame

\* getStats resolves with what the storage holds: the entry of the engine is
\* updated in the array read and the call suspends on saveStats
RecordStatsRead(c) ==
    /\ lcall[c].pc = "getStats"
    /\ lcall' = [lcall EXCEPT ![c] =
            [@ EXCEPT !.pc = "saveStats",
                      !.stats = recordInto(selStore[lcall[c].fp].stats,
                                           lcall[c].result)]]
    /\ UNCHANGED <<selStore, hist, clr>>
    /\ UNCHANGED learnFrame

RecordSaved_AlwaysFlag(c) ==
    /\ lcall[c].pc = "saveStats"
    /\ selStore' = [selStore EXCEPT ![lcall[c].fp].stats = lcall[c].stats]
    /\ lcall' = [lcall EXCEPT ![c].pc =
            IF lcall[c].result.triggeredCmSuper THEN "setFlag" ELSE "done"]
    /\ UNCHANGED <<hist, clr>>
    /\ UNCHANGED learnFrame

\* saveStats resolves: the array is stored; a pdflatex result that triggered
\* cm-super goes on to set the flag
RecordSaved(c) ==
    /\ lcall[c].pc = "saveStats"
    /\ selStore' = [selStore EXCEPT ![lcall[c].fp].stats = lcall[c].stats]
    /\ lcall' = [lcall EXCEPT ![c].pc =
            IF lcall[c].result.triggeredCmSuper
                    /\ lcall[c].result.engine = "pdflatex"
            THEN "setFlag" ELSE "done"]
    /\ UNCHANGED <<hist, clr>>
    /\ UNCHANGED learnFrame

\* storage.set(`cmsuper_${preambleHash}`, 'true') resolves
RecordFlagSet(c) ==
    /\ lcall[c].pc = "setFlag"
    /\ selStore' = [selStore EXCEPT ![lcall[c].fp].cmsuper = TRUE]
    /\ lcall' = [lcall EXCEPT ![c].pc = "done"]
    /\ UNCHANGED <<hist, clr>>
    /\ UNCHANGED learnFrame

\* the keys storage.keys() lists with a stats_ or cmsuper_ prefix
StoredKeys ==
    {<<"stats", fp>> : fp \in {f \in Fingerprints : selStore[f].stats # <<>>}}
        \cup {<<"cmsuper", fp>> : fp \in {f \in Fingerprints : selStore[f].cmsuper}}

\* a caller invokes clearHistory(): the call suspends on storage.keys()
ClearHistory ==
    /\ clr.pc = "idle"
    /\ clr' = [clr EXCEPT !.pc = "keys"]
    /\ UNCHANGED <<selStore, lcall, hist>>
    /\ UNCHANGED learnFrame

\* storage.keys() resolves
ClearKeysListed ==
    /\ clr.pc = "keys"
    /\ clr' = IF StoredKeys = {} THEN [pc |-> "done", keys |-> {}]
              ELSE [pc |-> "deleting", keys |-> StoredKeys]
    /\ UNCHANGED <<selStore, lcall, hist>>
    /\ UNCHANGED learnFrame

\* one storage.delete(key) of the loop resolves
ClearKeyDeleted(key) ==
    /\ clr.pc = "deleting"
    /\ key \in clr.keys
    /\ selStore' = IF key[1] = "stats"
                   THEN [selStore EXCEPT ![key[2]].stats = <<>>]
                   ELSE [selStore EXCEPT ![key[2]].cmsuper = FALSE]
    /\ clr' = IF clr.keys = {key} THEN [pc |-> "done", keys |-> {}]
              ELSE [clr EXCEPT !.keys = @ \ {key}]
    /\ UNCHANGED <<lcall, hist>>
    /\ UNCHANGED learnFrame

\* a selector over the storage an earlier session left
LearnInit ==
    /\ FetcherInit /\ BundleInit /\ LoaderInit
    /\ storeFaults = 0
    /\ walk = IdleWalk
    /\ ManifestInit
    /\ MountIdleInit
    /\ lbs = IdleLoadBundles
    /\ comp = IdleCompile
    /\ pl = NewPipeline
    /\ scall = IdleSelect
    /\ LearnIdleInit
    /\ ProxyInit
    /\ \E prior \in PriorStats :
          selStore = [EmptyStore EXCEPT ![Fingerprint(<<>>)].stats = prior]

\* recordResult calls of callers that do not wait for one another
RecordNext ==
    \/ \E c \in RecordCalls, source \in RecordSources,
          result \in RacingResults : RecordResult(c, source, result)
    \/ \E c \in RecordCalls : RecordStatsRead(c)
    \/ \E c \in RecordCalls : RecordSaved(c)
    \/ \E c \in RecordCalls : RecordFlagSet(c)

\* a caller that records one result at a time, clears the history and asks
\* for an engine
LearnNext ==
    \/ \E source \in RecordSources, result \in Results :
            /\ \A c \in RecordCalls : lcall[c].pc \in {"idle", "done"}
            /\ RecordResult(1, source, result)
    \/ RecordStatsRead(1)
    \/ RecordSaved(1)
    \/ RecordFlagSet(1)
    \/ ClearHistory
    \/ ClearKeysListed
    \/ \E key \in {"stats", "cmsuper"} \X Fingerprints : ClearKeyDeleted(key)
    \/ \E source \in LearnSources : Select(source)
    \/ SelectHashed
    \/ SelectStatsRead
    \/ SelectFlagRead

\* what recordResult may have stored for an engine
AvgTimes == {100, 200}

Rates == {<<0, 1>>, <<1, 2>>, <<1, 1>>}

NoEntry == [compileCount |-> 0, avgTimeMs |-> 0, successRate |-> <<0, 1>>]

EntryValues ==
    [compileCount : 1..MaxCompileCount, avgTimeMs : AvgTimes,
     successRate : Rates]

\* the stats array holding the entries of f in the order given
StatsArray(f, order) ==
    LET engines == SelectSeq(order, LAMBDA e : f[e] # NoEntry)
    IN  [i \in 1..Len(engines) |->
            [engine |-> engines[i], compileCount |-> f[engines[i]].compileCount,
             avgTimeMs |-> f[engines[i]].avgTimeMs,
             successRate |-> f[engines[i]].successRate]]

StatsChoices ==
    {StatsArray(f, order) :
        f \in [Range(Alternatives) -> EntryValues \cup {NoEntry}],
        order \in {Alternatives, <<"lualatex", "xelatex", "pdflatex">>}}

\* a selector over a storage that earlier compiles have filled
SelectInit ==
    /\ FetcherInit /\ BundleInit /\ LoaderInit
    /\ storeFaults = 0
    /\ walk = IdleWalk
    /\ ManifestInit
    /\ MountIdleInit
    /\ lbs = IdleLoadBundles
    /\ comp = IdleCompile
    /\ pl = NewPipeline
    /\ scall = IdleSelect
    /\ LearnIdleInit
    /\ ProxyInit
    /\ \E stats \in StatsChoices, flag \in BOOLEAN :
          selStore = [fp \in Fingerprints |->
                         [stats |-> stats, cmsuper |-> flag]]

SelectNext ==
    \/ \E source \in Sources : Select(source)
    \/ SelectHashed
    \/ SelectStatsRead
    \/ SelectFlagRead

(***************************************************************************)
(* The CTAN proxy: the /api/fetch route (src/packages/ctan-proxy.ts)       *)
(***************************************************************************)
bootstrapAliases(name) ==
    CASE name = "etex" -> "etex-pkg"
      [] name = "tikz" -> "pgf"
      [] OTHER -> "none"

resolveName_BootstrapOnly(aliases, requested) ==
    IF bootstrapAliases(requested) # "none" THEN bootstrapAliases(requested)
    ELSE requested

\* bootstrapAliases[requestedPkg] || dynamicAliasCache.get(requestedPkg)
\*     || requestedPkg
resolveName(aliases, requested) ==
    IF bootstrapAliases(requested) # "none" THEN bootstrapAliases(requested)
    ELSE IF aliases[requested] # "none" THEN aliases[requested]
    ELSE requested

\* the usable files of an archive: none, or one called like the package "pa"
Contents == {{}, {"pa.sty"}}

\* filePath.split('/').pop().replace(/\.(sty|tex|cls|def)$/, '')
Stem(file) == IF file = "pa.sty" THEN "pa" ELSE "x"

Response(status, served) == [status |-> status, served |-> served]

\* saveAliasCache(): the table is written to _aliases.json (the write taken
\* to succeed)
saveAliasCache(px) ==
    [px EXCEPT !.aliasFile = TRUE, !.diskAliases = px.aliases]

processArchive_CacheEmpty(px, pkgName, files) ==
    [proxy |-> [px EXCEPT !.cache[pkgName] = Entry(files),
                          !.diskCache[pkgName] = Entry(files)],
     response |-> IF files = {} THEN Response(404, "none")
                  ELSE Response(200, pkgName)]

\* processZip / processTexLiveTar after extraction: no usable file is a 404,
\* otherwise the answer is cached in memory and on disk (the write taken to
\* succeed) and returned
processArchive(px, pkgName, files) ==
    IF files = {}
    THEN [proxy |-> px, response |-> Response(404, "none")]
    ELSE [proxy |-> [px EXCEPT !.cache[pkgName] = Entry(files),
                               !.diskCache[pkgName] = Entry(files)],
          response |-> Response(200, pkgName)]

\* what a fetch of an archive can come to: the fetch or the extraction
\* throws, it answers with a status that is not ok, or it is extracted
ArchiveOutcomes ==
    [kind : {"throw", "notOk"}, files : {{}}]
        \cup [kind : {"ok"}, files : Contents]

\* what the query of ctan.org/json/2.0/pkg can come to: it throws, it
\* answers with errors, or with an info holding a miktex or texlive field
\* (parent) and an install path, a ctan path or neither (url)
InfoOutcomes ==
    [kind : {"throw", "errors"}, parent : {"none"}, url : {"none"}]
        \cup [kind : {"info"}, parent : {"none", "pa", "pb"},
              url : {"none", "install", "ctan"}]

proxyFrame ==
    <<fetcherVars, bundleVars, pmVars, storeFaults, walk, manifestVars,
      mountVars, lbs, compileVars, selectorVars, learnVars>>

\* the handler has returned: its locals are gone, the answer is kept
Finished(req, response) ==
    [IdleRequest EXCEPT !.pc = "done", !.requested = req.requested,
                        !.resolved = req.resolved, !.response = response]

\* GET /api/fetch/<requested> arrives: the name is resolved and answered
\* from pkgFetchCache, or the TexLive archive is requested
ProxyRequest(r, requested) ==
    /\ preq[r].pc \in {"idle", "done"}
    /\ LET pkgName == resolveName(proxy.aliases, requested)
           req == [IdleRequest EXCEPT !.requested = requested,
                                      !.resolved = pkgName,
                                      !.pkgName = pkgName]
       IN  preq' = [preq EXCEPT ![r] =
                IF proxy.cache[pkgName] # Absent
                THEN Finished(req, Response(200, pkgName))
                ELSE [req EXCEPT !.pc = "texlive"]]
    /\ UNCHANGED proxy
    /\ UNCHANGED proxyFrame

\* the answer of an archive fetch under the name pkgName
ArchiveAnswer(r, pkgName, out) ==
    IF out.kind = "throw"
    THEN /\ preq' = [preq EXCEPT ![r] = Finished(@, Response(500, "none"))]
         /\ UNCHANGED proxy
    ELSE LET done == processArchive(proxy, pkgName, out.files)
         IN  /\ proxy' = done.proxy
             /\ preq' = [preq EXCEPT ![r] = Finished(@, done.response)]

\* the TexLive archive of pkgName is answered
TexLiveAnswers(r, out) ==
    /\ preq[r].pc = "texlive"
    /\ IF out.kind = "notOk"
       THEN /\ preq' = [preq EXCEPT ![r].pc = "info"]
            /\ UNCHANGED proxy
       ELSE ArchiveAnswer(r, preq[r].pkgName, out)
    /\ UNCHANGED proxyFrame

\* the download that follows the CTAN info: none when there is no URL
ToDownload(req, pkgName, url) ==
    IF url = "none" THEN Finished([req EXCEPT !.pkgName = pkgName],
                                  Response(404, "none"))
    ELSE [req EXCEPT !.pc = "download", !.pkgName = pkgName, !.url = url]

\* the cached packages that hold a file called like pkgName
Holders(cache, pkgName) ==
    {n \in ProxyNames :
        \E f \in cache[n].files : Stem(f) = pkgName}

\* the CTAN query for pkgName is answered
InfoAnswers(r, info) ==
    /\ preq[r].pc = "info"
    /\ LET req == preq[r]
           pkgName == req.pkgName
       IN  CASE info.kind = "throw" ->
                  /\ preq' = [preq EXCEPT ![r] =
                                  Finished(req, Response(500, "none"))]
                  /\ UNCHANGED proxy
             [] info.kind = "errors" ->
                  IF Holders(proxy.cache, pkgName) = {}
                  THEN /\ preq' = [preq EXCEPT ![r] =
                                       Finished(req, Response(404, "none"))]
                       /\ UNCHANGED proxy
                  ELSE \E holder \in Holders(proxy.cache, pkgName) :
                          /\ proxy' = saveAliasCache(
                                 [proxy EXCEPT !.aliases[pkgName] = holder])
                          /\ preq' = [preq EXCEPT ![r] =
                                 Finished(req, Response(200, holder))]
             [] info.kind = "info" /\ info.parent \in {"none", pkgName} ->
                  /\ preq' = [preq EXCEPT ![r] =
                                  ToDownload(req, pkgName, info.url)]
                  /\ UNCHANGED proxy
             [] OTHER ->
                  LET aliased == [proxy EXCEPT
                                    !.aliases[req.requested] = info.parent,
                                    !.aliases[pkgName] = info.parent]
                  IN  /\ proxy' = saveAliasCache(aliased)
                      /\ preq' = [preq EXCEPT ![r] =
                            IF proxy.cache[info.parent] # Absent
                            THEN Finished(req, Response(200, info.parent))
                            ELSE [req EXCEPT !.pc = "parentTexlive",
                                             !.pkgName = info.parent,
                                             !.url = info.url]]
    /\ UNCHANGED proxyFrame

\* the TexLive archive of the parent is answered
ParentTexLiveAnswers(r, out) ==
    /\ preq[r].pc = "parentTexlive"
    /\ IF out.kind = "notOk"
       THEN /\ preq' = [preq EXCEPT ![r] =
                            ToDownload(preq[r], preq[r].pkgName, preq[r].url)]
            /\ UNCHANGED proxy
       ELSE ArchiveAnswer(r, preq[r].pkgName, out)
    /\ UNCHANGED proxyFrame

\* the download from mirrors.ctan.org is answered; a failed one is tried
\* again under the alternate URL when the URL came from info.ctan.path
DownloadAnswers(r, out) ==
    /\ preq[r].pc = "download"
    /\ IF out.kind = "notOk"
       THEN /\ preq' = [preq EXCEPT ![r] =
                    IF preq[r].url = "ctan"
                    THEN [preq[r] EXCEPT !.pc = "altDownload"]
                    ELSE Finished(preq[r], Response(500, "none"))]
            /\ UNCHANGED proxy
       ELSE ArchiveAnswer(r, preq[r].pkgName, out)
    /\ UNCHANGED proxyFrame

\* the download under the alternate URL is answered
AltDownloadAnswers(r, out) ==
    /\ preq[r].pc = "altDownload"
    /\ IF out.kind = "notOk"
       THEN /\ preq' = [preq EXCEPT ![r] =
                            Finished(preq[r], Response(500, "none"))]
            /\ UNCHANGED proxy
       ELSE ArchiveAnswer(r, preq[r].pkgName, out)
    /\ UNCHANGED proxyFrame

\* loadDiskCache(): the two maps are filled from the cache directory,
\* _aliases.json included as if it were the answer for a package
loadDiskCache(px) ==
    [px EXCEPT
        !.cache = [k \in CacheKeys |->
                      IF k = "_aliases"
                      THEN (IF px.aliasFile THEN Entry({}) ELSE Absent)
                      ELSE px.diskCache[k]],
        !.aliases = IF px.aliasFile THEN px.diskAliases ELSE NoAliases]

\* the proxy is started again; the requests it was serving are gone
ProxyRestart ==
    /\ proxy.restarts < MaxRestarts
    /\ proxy' = [loadDiskCache(proxy) EXCEPT !.restarts = @ + 1]
    /\ preq' = [r \in Requests |-> IdleRequest]
    /\ UNCHANGED proxyFrame

ProxyNext ==
    \/ \E r \in Requests, requested \in {"etex", "pa"} :
            ProxyRequest(r, requested)
    \/ \E r \in Requests, out \in ArchiveOutcomes : TexLiveAnswers(r, out)
    \/ \E r \in Requests, info \in InfoOutcomes : InfoAnswers(r, info)
    \/ \E r \in Requests, out \in ArchiveOutcomes : ParentTexLiveAnswers(r, out)
    \/ \E r \in Requests, out \in ArchiveOutcomes : DownloadAnswers(r, out)
    \/ \E r \in Requests, out \in ArchiveOutcomes : AltDownloadAnswers(r, out)
    \/ ProxyRestart

Init ==
    /\ FetcherInit /\ BundleInit /\ LoaderInit
    /\ storeFaults = 0
    /\ walk = IdleWalk
    /\ ManifestInit
    /\ MountIdleInit
    /\ OrchInit

SpecFetcher == Init /\ [][FetcherNext]_vars

SpecBundles == Init /\ [][BundleNext]_vars

SpecLoader == Init /\ [][LoaderNext]_vars

SpecFaulty == Init /\ [][FaultyNext]_vars

SpecEvicted == Init /\ [][EvictedNext]_vars

SpecResolve == ResolveInit /\ [][ResolveNext]_vars

SpecManifest == Init /\ [][ManifestNext]_vars

SpecMount == MountInit /\ [][MountNext]_vars

SpecLoadBundles == Init /\ [][LoadBundlesNext]_vars

SpecCompile == Init /\ [][CompileNext]_vars

SpecSelect == SelectInit /\ [][SelectNext]_vars

SpecLearn == LearnInit /\ [][LearnNext]_vars

SpecRecord == Init /\ [][RecordNext]_vars

SpecProxy == Init /\ [][ProxyNext]_vars

\* every pending fetchPackage call eventually returns and the traversal is
\* scheduled
SpecWalk ==
    /\ Init /\ [][WalkNext]_vars
    /\ WF_vars(WalkFetchReturns)
    /\ WF_vars(WalkEnterDep)
    /\ WF_vars(WalkFrameReturns)

(***************************************************************************)
(* Claims about CTANFetcher, checked under SpecFetcher                     *)
(***************************************************************************)
Pending(c) == fcall[c].pc \notin {"idle", "done"}

\* C2: concurrent fetchPackage(name) calls for one uncached name share one
\* in-flight request: of two calls for the same name that are pending at the
\* same time, at most one has issued a GET /api/fetch/<name>.
C2_SharedInFlightRequest ==
    \A c1, c2 \in Calls :
        (c1 # c2 /\ Pending(c1) /\ Pending(c2)
                 /\ fcall[c1].name = fcall[c2].name)
            => ~(fcall[c1].issued /\ fcall[c2].issued)

\* C4: a fetchPackage(x) invoked while the store holds a notFound record of
\* the current cache version for x (an earlier call returned null and
\* persisted it) returns null and issues no network request.
C4_NegativeCacheHonoured ==
    \A c \in Calls :
        (fcall[c].pc = "done" /\ fcall[c].atStart = "notFound")
            => (fcall[c].result = NullResult /\ ~fcall[c].issued)

\* C5: a fetchPackage(name) that reads a valid record (current version, not
\* notFound) whose recorded paths all have a blob returns exactly those files
\* and the recorded dependencies, and issues no network request.
C5_ValidRecordServedFromCache ==
    \A c \in Calls :
        (fcall[c].pc = "done" /\ fcall[c].seen = "valid"
                              /\ Range(fcall[c].rec.files) \subseteq opfs)
            => /\ fcall[c].result =
                    [kind |-> "files", files |-> Range(fcall[c].rec.files),
                     dependencies |-> fcall[c].rec.dependencies]
               /\ ~fcall[c].issued

C5_Witness ==
    \E c \in Calls :
        /\ fcall[c].pc = "done" /\ fcall[c].seen = "valid"
        /\ fcall[c].rec.files # <<>> /\ fcall[c].rec.dependencies # {}
        /\ Range(fcall[c].rec.files) \subseteq opfs
        /\ fcall[c].result.files = Range(fcall[c].rec.files)

\* C6: a call that reads a record whose cacheVersion differs from the current
\* constant ignores it, whether it holds files or notFound, and issues the
\* network request.
C6_StaleRecordIgnored ==
    \A c \in Calls :
        (fcall[c].pc \notin {"idle", "getMeta"} /\ fcall[c].rec.present
            /\ fcall[c].rec.cacheVersion # cacheVersion)
            => /\ fcall[c].issued
               /\ fcall[c].pc = "done" => fcall[c].resp # "none"

C6_Witness ==
    \E c1, c2 \in Calls :
        /\ fcall[c1].pc = "fetch" /\ fcall[c1].rec.present
        /\ fcall[c1].rec.cacheVersion # cacheVersion
        /\ fcall[c1].rec.notFound
        /\ fcall[c2].pc = "fetch" /\ fcall[c2].rec.present
        /\ fcall[c2].rec.cacheVersion # cacheVersion
        /\ ~fcall[c2].rec.notFound /\ fcall[c2].rec.files # <<>>

\* C7: when the GET of fetchPackage(name) fails at transport level, the call
\* returns null and nothing is written to either store in that step; a finished
\* call that failed this way has written no record, and while name has no
\* record, a further fetchPackage(name) issues the request again.
C7_TransportErrorNotCached ==
    /\ [][\A c \in Calls :
            (fcall[c].pc = "fetch" /\ fcall'[c].resp = "reject")
                => /\ fcall'[c].pc = "done"
                   /\ fcall'[c].result = NullResult
                   /\ pkgMeta' = pkgMeta
                   /\ opfs' = opfs]_vars
    /\ [](\A c \in Calls :
            (fcall[c].pc = "done" /\ fcall[c].resp = "reject")
                => /\ fcall[c].wrote = "none"
                   /\ \A d \in Calls \ {c} :
                        (/\ fcall[d].name = fcall[c].name
                         /\ fcall[d].pc \notin {"idle", "getMeta"}
                         /\ ~pkgMeta[fcall[c].name].present)
                            => fcall[d].issued)

C7_Witness ==
    \E c, d \in Calls :
        /\ c # d
        /\ fcall[c].pc = "done" /\ fcall[c].resp = "reject"
        /\ fcall[c].result = NullResult
        /\ fcall[d].name = fcall[c].name /\ fcall[d].pc = "fetch"
        /\ fcall[d].atStart = "absent"
        /\ ~pkgMeta[fcall[c].name].present

\* C8: a notFound record is persisted only on an answer that says the package
\* is absent (HTTP 404, or a 200 body with an error field); a transient
\* failure answer (HTTP 500) never makes a call write a negative record.
C8_NegativeOnlyWhenAbsent ==
    \A c \in Calls :
        fcall[c].wrote = "notFound" => fcall[c].resp \in {"404", "okError"}

\* C9: every stored pkg record lists no paths when notFound is true, and
\* otherwise only paths that have a blob in the blob store.
C9_RecordInvariant ==
    \A n \in PackageNames :
        pkgMeta[n].present =>
            IF pkgMeta[n].notFound
            THEN pkgMeta[n].files = <<>>
            ELSE Range(pkgMeta[n].files) \subseteq opfs

C9_Witness ==
    /\ pkgMeta["pa"].present /\ ~pkgMeta["pa"].notFound
    /\ Len(pkgMeta["pa"].files) = 2
    /\ pkgMeta["px"].present /\ pkgMeta["px"].notFound
    /\ \E c \in Calls : fcall[c].pc = "writeBlob"

\* C10: within one cache version a record holding real contents is never
\* overwritten by a notFound record.
C10_NoDemotion ==
    [][\A n \in PackageNames :
        (/\ cacheVersion' = cacheVersion
         /\ pkgMeta[n].present /\ ~pkgMeta[n].notFound
         /\ pkgMeta[n].cacheVersion = cacheVersion)
            => ~(pkgMeta'[n].present /\ pkgMeta'[n].notFound)]_vars

(***************************************************************************)
(* Claims about BundleManager.loadBundle, checked under SpecBundles        *)
(***************************************************************************)
BundlePendingCall(c) == bcall[c].pc \notin {"idle", "done"}

\* C1: concurrent callers of loadBundle(name) with name in neither cache share
\* one network request and receive the same bytes: of two calls for the same
\* name that are pending at the same time at most one has issued the GET for
\* <name>.data.gz, and two resolved calls for one name hold equal bytes.
C1_SingleBundleRequest ==
    \A c1, c2 \in BundleCalls :
        (c1 # c2 /\ bcall[c1].name = bcall[c2].name) =>
            /\ (BundlePendingCall(c1) /\ BundlePendingCall(c2))
                    => ~(bcall[c1].issued /\ bcall[c2].issued)
            /\ (bcall[c1].result.kind = "resolved"
                    /\ bcall[c2].result.kind = "resolved")
                    => bcall[c1].result.bytes = bcall[c2].result.bytes

(***************************************************************************)
(* Claims about PackageManager.loadBundle, checked under SpecLoader        *)
(***************************************************************************)
\* C3: loadBundle deduplicates by name: at most one _loadBundle(name) is in
\* flight, every caller waiting for name waits on that pending load, a new
\* _loadBundle(name) starts only after an earlier one failed, and the files of
\* name are mounted at most once.
C3_LoadDedup ==
    \A n \in LoaderBundles :
        /\ Len(pmRuns[n]) <= 1
        /\ (n \in loadingBundles) <=> (Len(pmRuns[n]) = 1)
        /\ pmLog.starts[n] <= 1 + pmLog.failed[n]
        /\ pmLog.mounts[n] <= 1
        /\ \A k \in LoaderCalls :
              (pmCalls[k].pc = "waiting" /\ pmCalls[k].name = n)
                  => Len(pmRuns[n]) = 1

C3_Witness ==
    /\ \E k \in LoaderCalls :
          /\ pmCalls[k].pc = "waiting" /\ pmCalls[k].how = "joined"
          /\ pmCalls[k].name = "core"
    /\ Len(pmRuns["core"]) = 1 /\ pmLog.starts["core"] = 1
    /\ Len(pmRuns["graphics"]) = 1 /\ "core" \in pmRuns["graphics"][1].waitOn
    /\ Len(pmRuns["tikz"]) = 1 /\ "core" \in pmRuns["tikz"][1].waitOn

(***************************************************************************)
(* Claims about CTANFetcher over failing stores, checked under SpecFaulty  *)
(***************************************************************************)
\* C11: fetchPackage never rejects: a call whose cache read threw went on to
\* the network path (it issued the GET), and a call that finished after any
\* failure on the network path (rejected fetch, negative or unparsable answer,
\* failed store write) resolved with null.
C11_NeverRejects ==
    \A c \in Calls :
        /\ fcall[c].result.kind \in {"pending", "null", "files"}
        /\ fcall[c].seen = "error" => fcall[c].issued
        /\ (/\ fcall[c].pc = "done"
            /\ \/ fcall[c].resp \in {"reject", "404", "500", "okError",
                                     "malformed"}
               \/ fcall[c].wrote = "failed")
                => fcall[c].result = NullResult

C11_Witness ==
    \E c, d \in Calls :
        /\ fcall[c].pc = "done" /\ fcall[c].seen = "error"
        /\ fcall[c].resp = "ok" /\ fcall[c].result.kind = "files"
        /\ fcall[d].pc = "done" /\ fcall[d].resp = "reject"
        /\ fcall[d].result = NullResult

(***************************************************************************)
(* Claims about fetchWithDependencies, checked under SpecWalk              *)
(***************************************************************************)
RECURSIVE ReachFrom(_, _, _)

\* the resolvable packages reachable from the packages of frontier through
\* the dependency lists of resolvable packages
ReachFrom(frontier, seen, w) ==
    LET new == {n \in frontier : n \in w.resolvable /\ n \notin seen}
    IN  IF new = {} THEN seen
        ELSE ReachFrom(UNION {w.graph[n] : n \in new}, seen \cup new, w)

\* C12: fetchWithDependencies(name) terminates on every dependency graph,
\* cyclic ones included; it calls fetchPackage at most once per package name;
\* and it returns the union of the files of every resolvable package
\* reachable from name.
C12_WalkTerminatesOncePerName ==
    /\ [](\A n \in WalkNames : walk.calls[n] <= 1)
    /\ [](walk.pc = "done" =>
            walk.result = UNION {WalkFiles(n) :
                                   n \in ReachFrom({walk.root}, {}, walk)})
    /\ (walk.pc \in {"fetch", "loop"}) ~> (walk.pc = "done")

C12_Witness ==
    /\ walk.pc = "done" /\ walk.root = "pa"
    /\ walk.graph = [n \in WalkNames |->
            IF n = "pa" THEN {"pb", "pc"} ELSE IF n = "pb" THEN {"pa", "pc"}
            ELSE {}]
    /\ walk.resolvable = {"pa", "pb"}
    /\ walk.calls = [n \in WalkNames |-> 1]
    /\ walk.result = WalkFiles("pa") \cup WalkFiles("pb")

(***************************************************************************)
(* Claims about BundleManager.resolveBundles, checked under SpecResolve    *)
(***************************************************************************)
ResultSet == Range(rcall.result)

\* C13 (as stated): for every package list and every engine the result of
\* resolveBundles contains core, latex-base, l3, graphics and tools.
C13_CoreSetAlways ==
    rcall.called =>
        {"core", "latex-base", "l3", "graphics", "tools"} \subseteq ResultSet

\* C13 (amended): the result of resolveBundles contains every bundle of the
\* core set that the loaded registry lists, and no bundle the registry does
\* not list (with no registry loaded the result is empty).
C13_CoreSetWithinRegistry ==
    rcall.called =>
        /\ \A b \in {"core", "latex-base", "l3", "graphics", "tools"} :
              b \in mf.bundleRegistry => b \in ResultSet
        /\ ResultSet \subseteq mf.bundleRegistry

C13_Witness ==
    /\ rcall.called
    /\ mf.bundleRegistry = AllBundles \ {"tools"}
    /\ {"core", "latex-base", "l3", "graphics"} \subseteq ResultSet
    /\ "tools" \notin ResultSet

\* C14: resolveBundles adds the engine's bundles (those the registry lists):
\* fmt-pdflatex, fonts-cm, amsfonts for pdflatex; fmt-xelatex, fontspec,
\* unicode-math for xelatex; fmt-lualatex, fontspec, unicode-math for lualatex.
C14_EngineBundlesAdded ==
    rcall.called =>
        LET wanted ==
              CASE rcall.engine = "pdflatex" ->
                      {"fmt-pdflatex", "fonts-cm", "amsfonts"}
                [] rcall.engine = "xelatex" ->
                      {"fmt-xelatex", "fontspec", "unicode-math"}
                [] OTHER ->
                      {"fmt-lualatex", "fontspec", "unicode-math"}
        IN  (wanted \cap mf.bundleRegistry) \subseteq ResultSet

RECURSIVE BundleClosure(_, _)

\* the bundles reachable from the bundles of S through bundle-deps
BundleClosure(m, S) ==
    LET next == S \cup UNION {Range(m.bundleDeps[b]) : b \in S}
    IN  IF next = S THEN S ELSE BundleClosure(m, next)

\* C15: for each requested package mapped to a bundle B of the registry, the
\* result contains B and every bundle of the registry in the transitive
\* closure of bundle-deps from B.
C15_TransitiveBundleDeps ==
    rcall.called =>
        \A i \in 1..Len(rcall.packages) :
            LET B == mf.packageMap[rcall.packages[i]]
            IN  (B # NoName /\ B \in mf.bundleRegistry) =>
                    (BundleClosure(mf, {B}) \cap mf.bundleRegistry)
                        \subseteq ResultSet

\* C16: in the returned sequence every bundle comes after the bundles it
\* depends on (for dependencies that do not depend back on it).
C16_DependenciesFirst ==
    rcall.called =>
        \A i, j \in 1..Len(rcall.result) :
            (/\ rcall.result[j] \in Range(mf.bundleDeps[rcall.result[i]])
             /\ rcall.result[i] \notin BundleClosure(mf, {rcall.result[j]}))
                => j < i

\* C17: resolveBundles is a pure, monotone set function of the loaded
\* registry: a call returns what the function gives for its arguments, the
\* bundle set depends only on the set of packages and the engine, the result
\* has no duplicates, resolving more packages never removes a bundle, and the
\* evaluation terminates on cyclic package-deps.
C17_PureMonotone ==
    rcall.called =>
        LET P  == rcall.packages
            e  == rcall.engine
            rP == resolveBundles(mf, P, e)
        IN  /\ rcall.result = rP
            /\ Cardinality(Range(rP)) = Len(rP)
            /\ \A Q \in PackageLists :
                  LET rPQ == resolveBundles(mf, P \o Q, e)
                      rQP == resolveBundles(mf, Q \o P, e)
                  IN  /\ Range(rP) \subseteq Range(rPQ)
                      /\ Range(rPQ) = Range(rQP)
                      /\ Range(P) = Range(Q) =>
                              Range(rP) = Range(resolveBundles(mf, Q, e))

C17_Witness ==
    /\ rcall.called
    /\ rcall.packages = <<"tikz", "pgfplots">>
    /\ mf.packageDeps["tikz"] = <<"pgfplots">>
    /\ mf.packageDeps["pgfplots"] = <<"tikz">>
    /\ {"tikz", "pgfplots"} \subseteq ResultSet
    /\ Cardinality(ResultSet) = Len(rcall.result)

(***************************************************************************)
(* Claims about the cache tiers of BundleManager.loadBundle (SpecBundles)  *)
(***************************************************************************)
\* C18: loadBundle(name) looks up the in-process map, then the blob store,
\* then the network: the blob store is read only on a map miss and the GET is
\* issued only on a blob-store miss; a call that resolved left its bytes in
\* the in-process map (a blob-store hit is promoted); a call made while the
\* map holds name returns those bytes at once, with no blob-store read and no
\* request; and the step in which a load fails does not touch the map.
C18_ThreeTierLookup ==
    /\ [](\A c \in BundleCalls :
            bcall[c].result.kind = "resolved"
                => bundleCache[bcall[c].name] = bcall[c].result.bytes)
    /\ [][\A c \in BundleCalls :
            /\ (bcall[c].pc # "opfsRead" /\ bcall'[c].pc = "opfsRead")
                  => bundleCache[bcall'[c].name] = NoBytes
            /\ (~bcall[c].issued /\ bcall'[c].issued)
                  => (bcall[c].pc = "opfsRead"
                      /\ bundleStore[bcall[c].name] = NoBytes)
            /\ \A n \in BundleNames :
                  (/\ bcall[c].pc \in {"idle", "done"}
                   /\ bcall'[c] # bcall[c] /\ bcall'[c].name = n
                   /\ bundleCache[n] # NoBytes)
                      => /\ bcall'[c].pc = "done" /\ ~bcall'[c].issued
                         /\ bcall'[c].from = "memory"
                         /\ bcall'[c].result = BundleResolved(bundleCache[n])
            /\ (bcall[c].result.kind # "rejected"
                    /\ bcall'[c].result.kind = "rejected")
                  => bundleCache' = bundleCache]_vars

C18_Witness ==
    \E c, d \in BundleCalls :
        /\ c # d /\ bcall[c].name = bcall[d].name
        /\ bcall[d].pc = "done" /\ bcall[d].from = "opfs"
        /\ bcall[c].pc = "done" /\ bcall[c].from = "memory"
        /\ bcall[c].result = bcall[d].result
        /\ bcall[c].result.kind = "resolved"

(***************************************************************************)
(* Claims about BundleManager.loadManifest, checked under SpecManifest     *)
(***************************************************************************)
\* C19: loadManifest resolves for a caller only when the file manifest, the
\* registry set and the package map are all set in-process, also for a caller
\* that invokes it while an earlier call is in flight; and a call made after
\* some call has resolved issues no fetch.
C19_ResolvesWhenAllSet ==
    /\ [](\A c \in ManifestCalls :
            mcall[c].result = "resolved"
                => (mf.fileManifestSet /\ mf.registrySet /\ mf.packageMapSet))
    /\ [][\A c \in ManifestCalls :
            (/\ mcall[c].pc \in {"idle", "done"}
             /\ mcall'[c].pc # mcall[c].pc
             /\ \E d \in ManifestCalls : mcall[d].result = "resolved")
                => ~mcall'[c].issued]_vars

(***************************************************************************)
(* Claims about mountBundle, checked under SpecMount                       *)
(***************************************************************************)
\* C20: mountBundle makes one FS.writeFile call per file f of the metadata,
\* in order, to the path f.path + "/" + f.name, with exactly the payload
\* bytes [f.start, f.end) when that extent lies in the payload; the
\* directories of f.path exist at that call unless a regular file sits on
\* f.path; and a file whose write was accepted holds those bytes afterwards,
\* unless a later entry of the same metadata wrote the same path.
C20_MountWritesExtents ==
    mount.pc = "done" =>
        /\ Len(mount.log) = Len(mount.files)
        /\ \A i \in 1..Len(mount.files) :
              LET f   == mount.files[i]
                  w   == mount.log[i]
                  lo  == f.extent[1]
                  hi  == f.extent[2]
              IN  /\ w.path = f.path \o <<f.name>>
                  /\ (0 <= lo /\ lo <= hi /\ hi <= Len(Payload))
                        => w.bytes = [k \in 1..(hi - lo) |-> Payload[lo + k]]
                  /\ \/ w.dirReady
                     \/ \E k \in 1..Len(f.path) :
                            IsFile(efs, SubSeq(f.path, 1, k))
                  /\ w.written <=> (w.dirReady /\ ~IsDir(efs, w.path))
                  /\ (w.written /\ \A j \in (i + 1)..Len(mount.files) :
                                       mount.log[j].path # w.path)
                        => [path |-> w.path, bytes |-> w.bytes] \in efs.files

C20_Witness ==
    /\ mount.pc = "done" /\ Len(mount.files) = 2
    /\ mount.files[1] = [path |-> <<"texlive", "tex">>, name |-> "a.sty",
                         extent |-> <<0, 2>>]
    /\ mount.files[2] = [path |-> <<"texlive">>, name |-> "a.sty",
                         extent |-> <<2, 3>>]
    /\ efs.dirs = {<<>>, <<"texlive">>, <<"texlive", "tex">>}
    /\ efs.files = {[path |-> <<"texlive", "tex", "a.sty">>,
                     bytes |-> <<10, 20>>],
                    [path |-> <<"texlive", "a.sty">>, bytes |-> <<30>>]}

\* C21: every path a mount writes starts with /texlive/; an entry whose path
\* does not is not written and is logged, and the other entries are mounted.
C21_OnlyTexlivePaths ==
    mount.pc = "done" =>
        /\ \A f \in efs.files : f.path[1] = "texlive"
        /\ \A i \in 1..Len(mount.files) :
              mount.files[i].path[1] # "texlive"
                  => ~mount.log[i].written /\ mount.log[i].logged

C22_MountAtomic ==
    /\ \A n \in loadedBundles : BundleFiles(n) \subseteq pmFS
    /\ \A k \in LoaderCalls :
          (pmCalls[k].pc = "done" /\ pmCalls[k].outcome = "resolved")
              => BundleFiles(pmCalls[k].name) \subseteq pmFS
    /\ \A n \in LoaderBundles :
          pmLog.mounts[n] = 0 => BundleFiles(n) \cap pmFS = {}

C22_Witness ==
    /\ \E k \in LoaderCalls :
          /\ pmCalls[k].pc = "done" /\ pmCalls[k].how = "joined"
          /\ pmCalls[k].outcome = "resolved" /\ pmCalls[k].name = "core"
    /\ "core" \in loadedBundles /\ BundleFiles("core") \subseteq pmFS
    /\ "graphics" \in loadingBundles /\ BundleFiles("graphics") \cap pmFS = {}

\* C23: when a load of a bundle settles, its loadingBundles entry is gone,
\* its callers settle with it, and the bundle joins loadedBundles exactly
\* when the load succeeded; loadedBundles and loadingBundles stay disjoint;
\* and a loadBundle call for a bundle that is neither loaded nor loading,
\* after a failure as at any time, starts a fresh _loadBundle.
C23_DedupEntryCleared ==
    /\ [](loadedBundles \cap loadingBundles = {})
    /\ [][\A n \in LoaderBundles :
            /\ (Len(pmRuns'[n]) < Len(pmRuns[n]))
                  => /\ n \notin loadingBundles'
                     /\ (n \in loadedBundles') <=>
                            (pmLog'.failed[n] = pmLog.failed[n])
                     /\ \A k \in LoaderCalls :
                           (pmCalls[k].pc = "waiting" /\ pmCalls[k].name = n)
                               => /\ pmCalls'[k].pc = "done"
                                  /\ (pmCalls'[k].outcome = "resolved")
                                        <=> (n \in loadedBundles')
            /\ \A k \in LoaderCalls :
                  (/\ pmCalls'[k] # pmCalls[k] /\ pmCalls'[k].name = n
                   /\ pmCalls[k].pc \in {"idle", "done"}
                   /\ n \notin loadedBundles /\ n \notin loadingBundles)
                      => /\ pmLog'.starts[n] = pmLog.starts[n] + 1
                         /\ n \in loadingBundles'
                         /\ pmCalls'[k].how = "started"]_vars

C23_Witness ==
    /\ pmLog.failed["core"] = 1 /\ pmLog.starts["core"] = 2
    /\ "core" \in loadingBundles /\ "core" \notin loadedBundles
    /\ \E k \in LoaderCalls :
          /\ pmCalls[k].pc = "done" /\ pmCalls[k].outcome = "rejected"
          /\ pmCalls[k].name = "core"
    /\ \E k \in LoaderCalls :
          /\ pmCalls[k].pc = "waiting" /\ pmCalls[k].how = "started"
          /\ pmCalls[k].name = "core"

(***************************************************************************)
(* Claims about BundleManager.loadBundles, checked under SpecLoadBundles   *)
(***************************************************************************)
\* C25: loadBundles never rejects: every name whose loadBundle rejected is
\* logged, and the map it resolves with holds exactly the names of which a
\* loadBundle resolved, each with the bytes of its bundle.
C25_LoadBundlesNeverRejects ==
    /\ lbs.result \in {"pending", "resolved"}
    /\ lbs.pc = "done" =>
          /\ lbs.result = "resolved"
          /\ \A c \in 1..Len(lbs.names) :
                /\ bcall[c].pc = "done" /\ bcall[c].name = lbs.names[c]
                /\ (c \in lbs.logged) <=> (bcall[c].result.kind = "rejected")
          /\ \A n \in BundleNames :
                /\ (lbs.bundleData[n] # NoBytes) <=>
                       \E c \in 1..Len(lbs.names) :
                           /\ lbs.names[c] = n
                           /\ bcall[c].result.kind = "resolved"
                /\ lbs.bundleData[n] \in {NoBytes, BundleData(n)}

C25_Witness ==
    /\ lbs.pc = "done" /\ lbs.result = "resolved"
    /\ lbs.names = <<"amsmath", "tikz">>
    /\ lbs.logged = {2} /\ bcall[2].body = "corrupt"
    /\ lbs.bundleData["amsmath"] = BundleData("amsmath")
    /\ lbs.bundleData["tikz"] = NoBytes

(***************************************************************************)
(* Claims about SplitBundlePipeline.compile, checked under SpecCompile     *)
(***************************************************************************)
\* C26: compile rejects only when initialisation failed; a bundle that
\* cannot be loaded or mounted, and a failing engine, give a resolved result
\* with success = false.
C26_CompileAlwaysResolves ==
    /\ comp.result.kind = "rejected" => comp.cause = "init"
    /\ (comp.pc = "done" /\ comp.outcome \in {"error", "missingFile"})
          => comp.result = [kind |-> "resolved", success |-> FALSE]

\* C27: a compile whose engine run stopped on a missing file fetched the
\* missing package and, when the fetch brought no file, ended without a
\* further run; the engine runs at most once more than packages were fetched.
C27_RecoveryLoop ==
    (comp.pc = "done" /\ comp.outcome = "missingFile")
        => /\ comp.fetched # {}
           /\ comp.engineRuns <= 1 + Cardinality(comp.fetched)

\* C28: the engine is invoked only when no mount of the compile is pending,
\* every bundle the compile asked for (for the packages of the document and
\* for the engine) is in loadedBundles and the input files are written; a
\* compile with a pending mount has not run the engine.
C28_StrictlySerial ==
    /\ [](comp.waitOn # {} => comp.engineRuns = 0)
    /\ [](comp.engineRuns > 0 =>
            /\ comp.waitOn = {} /\ comp.inputsWritten
            /\ comp.required \subseteq pl.loaded
            /\ comp.required =
                  loaderResolveBundles(comp.packages) \cup
                  Range(ENGINE_BUNDLES(DriverEngine(comp.driver))))
    /\ [][comp'.engineRuns > comp.engineRuns =>
            /\ comp.pc = "engineReqs" /\ comp.waitOn = {}
            /\ comp'.engineRuns = 1 /\ comp'.pc = "done"]_vars

C28_Witness ==
    /\ comp.pc = "done" /\ comp.engineRuns = 1 /\ comp.outcome = "pdf"
    /\ comp.packages = <<"amsmath">> /\ comp.driver = "pdftex_bibtex8"
    /\ pl.loaded = {"core", "fonts-cm", "dvips", "amsmath", "fonts-symbols"}

(***************************************************************************)
(* Claims about EngineSelector.select, checked under SpecSelect            *)
(***************************************************************************)
\* a package that extractPackages returns is in the required set of the
\* engine, or a required command or script of it stands outside comments
Requires(engine, source) ==
    \/ \E i \in 1..Len(source) :
          /\ source[i].kind = "usepackage"
          /\ source[i].arg \in RequiredPackages(engine)
    \/ \E i \in 1..Len(source) :
          /\ ~source[i].commented
          /\ \/ source[i].kind = "command"
                   /\ source[i].arg \in RequiredCommands(engine)
             \/ source[i].kind = "script"
                   /\ source[i].arg \in RequiredScripts(engine)

Qualifying(stats) ==
    {i \in 1..Len(stats) :
        stats[i].compileCount >= 2 /\ 2 * stats[i].successRate[1]
                                          > stats[i].successRate[2]}

\* C30: with no hard requirement and at least one entry with
\* compileCount >= 2 and successRate > 0.5, select returns with confidence
\* high the engine of an entry of minimum average time among those entries.
C30_HistoricalBest ==
    LET stats == selStore[Fingerprint(scall.source)].stats
    IN  (/\ scall.pc = "done"
         /\ \A engine \in Range(RequirementOrder) :
               ~Requires(engine, scall.source)
         /\ Qualifying(stats) # {})
            => /\ scall.result.confidence = "high"
               /\ \E i \in Qualifying(stats) :
                     /\ scall.result.engine = stats[i].engine
                     /\ \A j \in Qualifying(stats) :
                           stats[i].avgTimeMs <= stats[j].avgTimeMs

C30_Witness ==
    LET stats == selStore[Fingerprint(scall.source)].stats
    IN  /\ scall.pc = "done" /\ scall.result.rule = "historical"
        /\ scall.source = <<Line("usepackage", "geometry", FALSE)>>
        /\ Len(stats) = 3 /\ Cardinality(Qualifying(stats)) = 2
        /\ stats[1].engine = "pdflatex" /\ stats[1].avgTimeMs = 100
        /\ 1 \notin Qualifying(stats)
        /\ stats[2].avgTimeMs = 200 /\ stats[3].avgTimeMs = 100
        /\ scall.result.engine = "lualatex"

\* the engines of the entries with successRate < 0.5
FailedEngines(stats) ==
    {stats[i].engine :
        i \in {j \in 1..Len(stats) : RateBelowHalf(stats[j].successRate)}}

NoHardRequirement(source) ==
    \A engine \in Range(RequirementOrder) : ~Requires(engine, source)

\* C32 (as stated): with no hard requirement and no historical-best entry,
\* if the statistics record low-success engines, select returns with
\* confidence medium an engine that is not in the failed set, so never an
\* engine whose recorded success rate is below 0.5.
C32_AvoidsLowSuccess ==
    (/\ scall.pc = "done"
     /\ NoHardRequirement(scall.source)
     /\ Qualifying(scall.stats) = {}
     /\ FailedEngines(scall.stats) # {})
        => /\ scall.result.confidence = "medium"
           /\ scall.result.engine \notin FailedEngines(scall.stats)

\* C32 (amended): the same, provided that at least one of pdflatex, xelatex
\* and lualatex is not in the failed set.
C32_AvoidsWhenViable ==
    (/\ scall.pc = "done"
     /\ NoHardRequirement(scall.source)
     /\ Qualifying(scall.stats) = {}
     /\ FailedEngines(scall.stats) # {}
     /\ FailedEngines(scall.stats) # Range(Alternatives))
        => /\ scall.result.confidence = "medium"
           /\ scall.result.rule = "avoidance"
           /\ scall.result.engine \notin FailedEngines(scall.stats)

\* pdflatex and xelatex are low-success, a third entry is neither good nor
\* bad, and select returned lualatex
C32_Witness ==
    /\ scall.pc = "done" /\ NoHardRequirement(scall.source)
    /\ Qualifying(scall.stats) = {}
    /\ FailedEngines(scall.stats) = {"pdflatex", "xelatex"}
    /\ Len(scall.stats) = 3
    /\ scall.result = Selection("lualatex", "medium", "avoidance")
    /\ selStore[Fingerprint(scall.source)].cmsuper

(***************************************************************************)
(* Claims about learning, checked under SpecLearn and SpecRecord           *)
(***************************************************************************)
\* the entry of an engine in a statistics array
EntryOf(stats, engine) == stats[FindEngine(stats, engine)]

\* the statistics select decided on: the array it read, or the stored one
\* when a hard requirement made it return before reading
StatsSeen ==
    IF scall.result.rule = "requirement"
    THEN selStore[Fingerprint(scall.source)].stats
    ELSE scall.stats

NoneRecording == \A c \in RecordCalls : lcall[c].pc \in {"idle", "done"}

C34_NoResultLost ==
    (NoneRecording /\ clr.pc = "idle") =>
        \A fp \in Fingerprints, e \in Range(Alternatives) :
            LET stats == selStore[fp].stats
                i == FindEngine(stats, e)
            IN  IF hist[fp][e].results = 0 THEN i = 0
                ELSE /\ i # 0
                     /\ stats[i].compileCount = hist[fp][e].results
                     /\ stats[i].successRate[2] = stats[i].compileCount
                     /\ stats[i].successRate[1] = hist[fp][e].successes

(***************************************************************************)
(* Claims about the CTAN proxy                                             *)
(***************************************************************************)

\* request slot r takes a new GET /api/fetch/<name> in this step
Arrives(r) ==
    /\ preq[r].pc \in {"idle", "done"}
    /\ preq'[r].pc # "idle"
    /\ preq'[r] # preq[r]
    /\ proxy' = proxy

\* a parent reported for the looked-up name is stored in dynamicAliasCache
\* under the requested name and written to _aliases.json, and a restart of
\* the proxy keeps the table
AliasStoredAndPersisted ==
    /\ \A r \in Requests :
          (preq[r].pc = "info" /\ proxy'.aliases # proxy.aliases)
              => /\ proxy'.aliasFile
                 /\ proxy'.diskAliases = proxy'.aliases
    /\ \A r \in Requests :
          (preq[r].pc = "info" /\ preq'[r].pc = "parentTexlive")
              => /\ proxy'.aliases[preq[r].requested] = preq'[r].pkgName
                 /\ proxy'.aliasFile
                 /\ proxy'.diskAliases = proxy'.aliases
    /\ \A r \in Requests :
          (/\ preq[r].pc = "info" /\ preq'[r].pc = "done"
           /\ preq'[r].response.status = 200
           /\ Holders(proxy.cache, preq[r].pkgName) = {})
              => /\ proxy'.aliases[preq[r].requested]
                        = preq'[r].response.served
                 /\ proxy'.aliasFile
                 /\ proxy'.diskAliases = proxy'.aliases
    /\ (proxy'.restarts # proxy.restarts) => proxy'.aliases = proxy.aliases

\* the request arriving in slot r is resolved under the alias stored for its
\* name, and answered from the alias's cache entry when there is one
ResolvedUnderAlias(r) ==
    LET requested == preq'[r].requested
        P == proxy.aliases[requested]
    IN  /\ preq'[r].resolved = P
        /\ proxy.cache[P] # Absent
              => /\ preq'[r].pc = "done"
                 /\ preq'[r].response = Response(200, P)

\* C35 as stated: after an upstream lookup for <requested> reported a parent
\* P, the alias requested -> P is stored and persisted, and every later
\* request for <requested> is resolved under P and answered from P's cache
\* entry once P is cached.
C35_LaterRequestsUnderParent ==
    [][/\ AliasStoredAndPersisted
       /\ \A r \in Requests :
             (Arrives(r) /\ proxy.aliases[preq'[r].requested] # "none")
                 => ResolvedUnderAlias(r)]_vars

\* C35 amended: the same for a requested name that has no bootstrap alias,
\* P being the parent last stored for it; a name with a bootstrap alias is
\* resolved under the bootstrap alias whatever parent was stored.
C35_LaterRequestsUnderParentUnlessBootstrap ==
    [][/\ AliasStoredAndPersisted
       /\ \A r \in Requests :
             Arrives(r) =>
                 IF bootstrapAliases(preq'[r].requested) # "none"
                 THEN preq'[r].resolved
                          = bootstrapAliases(preq'[r].requested)
                 ELSE proxy.aliases[preq'[r].requested] # "none"
                          => ResolvedUnderAlias(r)]_vars

\* the parent "pb" was stored for "pa", survived a restart, and a later
\* request for "pa" was answered from the cache entry of "pb"
C35_Witness ==
    /\ proxy.restarts > 0
    /\ proxy.aliases["pa"] = "pb"
    /\ proxy.diskAliases["pa"] = "pb"
    /\ proxy.cache["pb"] # Absent
    /\ \E r \in Requests :
          /\ preq[r].pc = "done"
          /\ preq[r].requested = "pa"
          /\ preq[r].resolved = "pb"
          /\ preq[r].response = Response(200, "pb")

\* C39: every entry a request adds to pkgFetchCache holds at least one
\* file, a request answered with 404 or 500 leaves pkgFetchCache as it was,
\* and a request whose resolved name has no entry is looked up upstream.
C39_NoNegativeCaching ==
    [][/\ (proxy'.restarts = proxy.restarts) =>
              \A k \in CacheKeys :
                  proxy'.cache[k] # proxy.cache[k]
                      => /\ proxy'.cache[k].present
                         /\ proxy'.cache[k].files # {}
       /\ \A r \in Requests :
             (/\ preq[r].pc \notin {"idle", "done"}
              /\ preq'[r].pc = "done"
              /\ preq'[r].response.status \in {404, 500})
                 => proxy'.cache = proxy.cache
       /\ \A r \in Requests :
             (Arrives(r) /\ proxy.cache[preq'[r].resolved] = Absent)
                 => preq'[r].pc = "texlive"]_vars

\* a request for "pa" was answered 404 for an archive without usable files,
\* nothing was cached for it, and the name is being looked up again
C39_Witness ==
    /\ proxy.cache["pa"] = Absent
    /\ \E r \in Requests :
          /\ preq[r].requested = "pa"
          /\ preq[r].resolved = "pa"
          /\ preq[r].pc = "done"
          /\ preq[r].response.status = 404

(***************************************************************************)
(* Claims about what a fetchPackage call leaves behind                     *)
(***************************************************************************)

\* call c returns in this step
Returns(c) == fcall[c].pc \notin {"idle", "done"} /\ fcall'[c].pc = "done"

\* C36: a fetchPackage call that returns null has added no path to
\* mountedFiles (the paths a call adds are those it puts into its files
\* map, in the same statement), and fetchCount changes only in a step in
\* which a call returns files.
C36_NullLeavesNoTrace ==
    [][/\ \A c \in Calls :
             (Returns(c) /\ fcall'[c].result.kind = "null")
                 => /\ fcall'[c].files = {}
                    /\ fetchCount' = fetchCount
       /\ (fetchCount' # fetchCount /\ cacheVersion' = cacheVersion)
             => \E c \in Calls :
                   Returns(c) /\ fcall'[c].result.kind = "files"]_vars

\* C37: a result that fetchPackage serves from the cache (no request was
\* issued) holds every path listed in the package record the call read; a
\* call that finds a recorded path without a blob issues the request.
C37_CacheResultsComplete ==
    \A c \in Calls :
        (/\ fcall[c].pc = "done"
         /\ fcall[c].result.kind = "files"
         /\ ~fcall[c].issued)
            => fcall[c].result.files = Range(fcall[c].rec.files)

(***************************************************************************)
(* Dependency order of PackageManager.loadBundle, checked under SpecLoader *)
(***************************************************************************)
RECURSIVE TransitiveDeps(_)

\* the bundles reachable from n through BUNDLE_DEPENDENCIES
TransitiveDeps(n) ==
    LET direct == Range(BUNDLE_DEPENDENCIES(n))
    IN  direct \cup UNION {TransitiveDeps(d) : d \in direct}

\* C38: the files of a bundle are written only when every bundle of its
\* transitive BUNDLE_DEPENDENCIES is in loadedBundles with its files in the
\* engine filesystem, and a loadBundle(name) call that has resolved finds
\* name and its transitive dependencies in loadedBundles.
C38_DependenciesFirst ==
    /\ [](\A k \in LoaderCalls :
            (pmCalls[k].pc = "done" /\ pmCalls[k].outcome = "resolved")
                => ({pmCalls[k].name} \cup TransitiveDeps(pmCalls[k].name))
                       \subseteq loadedBundles)
    /\ [][\A n \in LoaderBundles :
            (pmLog'.mounts[n] > pmLog.mounts[n])
                => \A d \in TransitiveDeps(n) :
                      /\ d \in loadedBundles
                      /\ pmLog.mounts[d] > 0
                      /\ BundleFiles(d) \subseteq pmFS]_vars

\* loadBundle("tikz") started the loads of core, graphics and tikz, each was
\* mounted once, and the call has resolved
C38_Witness ==
    /\ \E k \in LoaderCalls :
          /\ pmCalls[k].pc = "done" /\ pmCalls[k].how = "started"
          /\ pmCalls[k].outcome = "resolved" /\ pmCalls[k].name = "tikz"
    /\ loadedBundles = LoaderBundles
    /\ \A n \in LoaderBundles :
          pmLog.mounts[n] = 1 /\ BundleFiles(n) \subseteq pmFS

(***************************************************************************)
(* What a package contributes to resolveBundles, checked under SpecResolve *)
(***************************************************************************)
RECURSIVE PackageClosure(_, _)

\* the packages reachable from the packages of S through package-deps
PackageClosure(m, S) ==
    LET next == S \cup UNION {Range(m.packageDeps[p]) : p \in S}
    IN  IF next = S THEN S ELSE PackageClosure(m, next)

\* the packages visited for the call that are mapped to a bundle of the
\* registry
MappedPackages ==
    {p \in PackageClosure(mf, Range(rcall.packages)) :
        /\ mf.packageMap[p] # NoName
        /\ mf.packageMap[p] \in mf.bundleRegistry}

\* C40: every bundle resolveBundles returns is in the loaded registry, and
\* each is a core or engine bundle, or the bundle, or a direct bundle
\* dependency of the bundle, of a visited package that is mapped to a bundle
\* of the registry: a package without a mapping, or mapped to a bundle the
\* registry does not list, adds nothing.
C40_OnlyRegisteredBundles ==
    rcall.called =>
        /\ \A b \in ResultSet : bundleExists(mf, b)
        /\ ResultSet \subseteq
              (Range(CoreBundles) \cup Range(EngineBundles(rcall.engine))
                 \cup UNION {{mf.packageMap[p]}
                               \cup Range(mf.bundleDeps[mf.packageMap[p]]) :
                             p \in MappedPackages})

\* pgfplots is mapped to a bundle the registry lacks and lingmacros to none:
\* neither pgfplots nor its bundle dependency tikz is returned
C40_Witness ==
    /\ rcall.called
    /\ rcall.packages = <<"pgfplots", "lingmacros">>
    /\ mf.packageMap["pgfplots"] = "pgfplots"
    /\ mf.packageMap["lingmacros"] = NoName
    /\ mf.bundleRegistry = AllBundles \ {"pgfplots"}
    /\ mf.bundleDeps["pgfplots"] = <<"tikz">>
    /\ mf.packageDeps["pgfplots"] = <<>>
    /\ ResultSet \cap PackageBundles = {}
    /\ "core" \in ResultSet

====
